---- MODULE Spec2Model ----
(***************************************************************************)
(* Model of samples/materialize_workbooks.py (the materialized-views CLI   *)
(* sample) and of the Tasks endpoint of tableauserverclient it drives.     *)
(*                                                                         *)
(* Strings that the program splits or joins (workbook names, project       *)
(* names, paths, lines of a list file) are sequences of one-character      *)
(* strings; option values that are only compared are TLA+ strings.         *)
(* Python's None is the string "None" for string-valued options and a      *)
(* record with id 0 for objects.                                           *)
(***************************************************************************)
EXTENDS Integers, Sequences, FiniteSets, TLC

\* ------------------------------------------------------------------------
\* Bounds of the model
\* ------------------------------------------------------------------------
MaxTasks == 2
MaxPageSize == 2
MaxSchedules == 3
MaxWorkbooks == 2
MaxLines == 2
MaxProjects == 3

None == "None"

\* ------------------------------------------------------------------------
\* Helpers on sequences
\* ------------------------------------------------------------------------
Range(s) == {s[k] : k \in 1..Len(s)}

SeqsUpTo(S, n) == UNION {[1..k -> S] : k \in 0..n}

\* d[k] = v on a dict whose keys are kept in insertion order
DictPut(keys, k) == IF k \in Range(keys) THEN keys ELSE Append(keys, k)

\* ------------------------------------------------------------------------
\* Python string operations, on sequences of characters
\* ------------------------------------------------------------------------
Slash == "/"
Space == " "
Newline == "\n"

\* str.isspace(): non-empty and only whitespace
isspace(s) == Len(s) > 0 /\ \A k \in 1..Len(s) : s[k] \in {Space, Newline}

\* str.rstrip()
RECURSIVE rstrip(_)
rstrip(s) == IF Len(s) > 0 /\ s[Len(s)] \in {Space, Newline}
             THEN rstrip(SubSeq(s, 1, Len(s) - 1))
             ELSE s

\* str.split('/')
RECURSIVE split(_)
split(s) ==
    IF \A k \in 1..Len(s) : s[k] # Slash
    THEN <<s>>
    ELSE LET k == CHOOSE k \in 1..Len(s) :
                    s[k] = Slash /\ \A j \in 1..(k - 1) : s[j] # Slash
         IN  <<SubSeq(s, 1, k - 1)>> \o split(SubSeq(s, k + 1, Len(s)))

\* '/'.join(segments)
RECURSIVE join(_)
join(segs) == IF Len(segs) = 0 THEN <<>>
              ELSE IF Len(segs) = 1 THEN segs[1]
              ELSE segs[1] \o <<Slash>> \o join(Tail(segs))

\* seq[:-1]
ButLast(s) == IF Len(s) = 0 THEN <<>> ELSE SubSeq(s, 1, Len(s) - 1)

\* ------------------------------------------------------------------------
\* Values
\* ------------------------------------------------------------------------
\* a str: characters
Str(c) == <<c>>

\* task.target is None (an orphaned task)
NoTarget == [id |-> 0, type |-> None]
\* find_schedule found nothing
NoSchedule == [id |-> 0, name |-> None]
\* no task
NoTask == [id |-> 0, target |-> NoTarget, sched |-> 0]

\* a list-file option: not given, given but not a file, or a file with lines
NoFile == [given |-> FALSE, isfile |-> FALSE, lines |-> <<>>]
BadFile == [given |-> TRUE, isfile |-> FALSE, lines |-> <<>>]
File(lines) == [given |-> TRUE, isfile |-> TRUE, lines |-> lines]

\* a string option: not given, or its value
NoOpt == [given |-> FALSE, value |-> <<>>]
Opt(v) == [given |-> TRUE, value |-> v]

\* a value of an hour/minute option: the int default of argparse, or the
\* string typed on the command line (lit: does float() parse it, whole: does
\* int() parse it)
PyInt(n) == [t |-> "int", n |-> n, lit |-> TRUE, whole |-> TRUE]
PyStr(n) == [t |-> "str", n |-> n, lit |-> TRUE, whole |-> TRUE]
PyBad == [t |-> "str", n |-> 0, lit |-> FALSE, whole |-> FALSE]
PyNone == [t |-> None, n |-> 0, lit |-> FALSE, whole |-> FALSE]
\* the string of n + 0.5, as "8.5": float() parses it, int() raises ValueError
PyFrac(n) == [t |-> "str", n |-> n, lit |-> TRUE, whole |-> FALSE]

\* Schedules of the server: ids 1.., the name is not unique
ScheduleName(id) == IF id = 2 THEN "Hourly" ELSE "Nightly"
SrvSchedules == [k \in 1..MaxSchedules |-> [id |-> k, name |-> ScheduleName(k)]]

\* Projects and workbooks of the server in the command-line workflows:
\*   p (1)   p/q (2)   q (3);   workbooks p/a (1)  p/q/a (2)  p/q/b (3)
CliProjects == << [id |-> 1, name |-> Str("p"), parent_id |-> 0],
                  [id |-> 2, name |-> Str("q"), parent_id |-> 1],
                  [id |-> 3, name |-> Str("q"), parent_id |-> 0] >>
CliWorkbooks == << [id |-> 1, name |-> Str("a"), project_id |-> 1],
                   [id |-> 2, name |-> Str("a"), project_id |-> 2],
                   [id |-> 3, name |-> Str("b"), project_id |-> 2] >>

\* the command line without any option (argparse defaults, lines 17-61)
DefaultArgs ==
    [ mode |-> None, status |-> FALSE, type |-> "workbook",
      path_list |-> NoFile, workbook_path |-> NoOpt, name_list |-> NoFile,
      project_name |-> NoOpt, project_path |-> NoOpt,
      materialize_now |-> FALSE,
      create_schedule |-> None, show_schedules |-> FALSE,
      remove_from_schedule |-> FALSE, add_to_schedule |-> None,
      hourly_interval |-> None, weekly_interval |-> [given |-> FALSE, days |-> <<>>],
      daily_interval |-> FALSE, monthly_interval |-> PyNone,
      start_hour |-> PyInt(0), start_minute |-> PyInt(0),
      end_hour |-> PyInt(0), end_minute |-> PyInt(0) ]

\* ------------------------------------------------------------------------
\* State
\* ------------------------------------------------------------------------
VARIABLES
    pc,            \* position of the program
    ret,           \* return value of the workflow, or the exception that ended it
    args,          \* parsed command line
    signedIn,      \* the server object holds an auth token
    reqs,          \* requests sent to the server, in order
    printed,       \* lines and tables printed, in order
    srvTasks,      \* materialize-views tasks held by the server, server order
    srvProjects,   \* projects held by the server
    srvWorkbooks,  \* workbooks held by the server
    siteMode,      \* materialized_views_mode of the site
    pageSize,      \* page size of the server's list responses
    nextTaskId,    \* id the server gives to the next task
    schedule,      \* local: schedule found by name
    tasks,         \* local: task listing
    workbook_id_to_workbook,  \* local: resolved workbooks, [none, keys]
    workbook_id_to_task,      \* local: workbook id -> task
    table,         \* local: rows of the result table
    num,           \* local: num_added / num_removed / num_enabled_workbook
    todo,          \* local: items the running loop still has to process
    caller,        \* the function that called the running workflow
    answers,       \* history: the answers the user gave to confirm(), in order
    processed      \* history: the workbooks the Attach loop is through with

vars == <<pc, ret, args, signedIn, reqs, printed, srvTasks, srvProjects,
          srvWorkbooks, siteMode, pageSize, nextTaskId, schedule, tasks,
          workbook_id_to_workbook, workbook_id_to_task, table, num, todo, caller,
          answers, processed>>

server == <<srvTasks, srvProjects, srvWorkbooks, siteMode, pageSize, nextTaskId>>
locals == <<schedule, tasks, workbook_id_to_workbook, workbook_id_to_task,
            table, num, todo>>

\* a request sent to the server
Req(op, id, id2, name, ok) ==
    [op |-> op, id |-> id, id2 |-> id2, name |-> name, ok |-> ok, auth |-> signedIn]

\* a printed line
Line(k, id, name) == [k |-> k, id |-> id, id2 |-> 0, name |-> name, rows |-> <<>>]
\* a printed line about a workbook and a schedule
LineOn(k, id, id2) == [k |-> k, id |-> id, id2 |-> id2, name |-> <<>>, rows |-> <<>>]
\* a printed table
Table(rows) == [k |-> "table", id |-> 0, id2 |-> 0, name |-> <<>>, rows |-> rows]

\* ------------------------------------------------------------------------
\* Pager: the lazy sequence over the pages of a list endpoint
\* ------------------------------------------------------------------------
Min(a, b) == IF a <= b THEN a ELSE b

\* page n of the server's listing `all`, page size S
Page(all, n, S) == SubSeq(all, (n - 1) * S + 1, Min(n * S, Len(all)))

\* what the page-fetch capability returns when it is asked for page n:
\* an endpoint's get() honours the page number of the options; a capability
\* that drops the options it is given returns the first page again
Fetch(all, n, S, usesOptions) == Page(all, IF usesOptions THEN n ELSE 1, S)

\* items yielded by the Pager once `count` items were yielded, next page n
RECURSIVE PagerFrom(_, _, _, _, _)
PagerFrom(all, S, usesOptions, n, count) ==
    IF count >= Len(all) THEN <<>>
    ELSE LET page == Fetch(all, n, S, usesOptions)
             take == SubSeq(page, 1, Min(Len(page), Len(all) - count))
         IN  IF Len(page) = 0 THEN <<>>
             ELSE take \o PagerFrom(all, S, usesOptions, n + 1, count + Len(take))

\* list(TSC.Pager(endpoint, options))
Pager(all, S, usesOptions) == PagerFrom(all, S, usesOptions, 1, 0)

\* number of page fetches of a Pager over a listing with T items
NumPages(T, S) == IF T = 0 THEN 1 ELSE (T + S - 1) \div S

\* the GET requests of one Pager run that starts after `sent` requests of the
\* running step, when request number `fail` of the step is answered with an
\* error (fail = 0: none is)
PagerReqs(op, name, T, sent, fail) ==
    LET n == NumPages(T, pageSize)
        m == IF fail > sent /\ fail <= sent + n THEN fail - sent ELSE n
    IN  [k \in 1..m |-> Req(op, k, 0, name, sent + k # fail)]

PagerFailed(T, sent, fail) == fail > sent /\ fail <= sent + NumPages(T, pageSize)

\* ------------------------------------------------------------------------
\* Project paths
\* ------------------------------------------------------------------------
\* {project.id: project for project in TSC.Pager(server.projects)}
AllProjects(projects) ==
    [id \in {projects[k].id : k \in 1..Len(projects)} |->
        LET k == CHOOSE k \in 1..Len(projects) :
                    projects[k].id = id /\ \A j \in (k + 1)..Len(projects) : projects[j].id # id
        IN  projects[k]]

\* variant of line 507 that puts the name of the project after the path
path_with_after(project, path) ==
    IF Len(path) = 0 THEN project.name ELSE path \o <<Slash>> \o project.name

\* line 507: the name of the project goes in front of the path
path_with(project, path) ==
    IF Len(path) = 0 THEN project.name ELSE project.name \o <<Slash>> \o path

\* variant of line 509 that takes every project for a root
is_root_always(project) == TRUE

\* line 509: project.parent_id is None
is_root(project) == project.parent_id = 0

RECURSIVE find_project_path(_, _, _)
\* variant of find_project_path that stops at the project itself
find_project_path_leaf(project, all_projects, path) == project.name

\* find_project_path, lines 504-512
find_project_path(project, all_projects, path) ==
    LET p == path_with(project, path)
    IN  IF is_root(project)
        THEN p
        ELSE find_project_path(all_projects[project.parent_id], all_projects, p)

\* ------------------------------------------------------------------------
\* Workbook lists
\* ------------------------------------------------------------------------
\* sanitize_workbook_list: the stripped non-blank lines of the file (a line
\* of the file is read with the newline that ends it)
sanitize_workbook_list(file) ==
    IF ~file.isfile THEN <<>>
    ELSE LET kept == SelectSeq(file.lines, LAMBDA l : ~isspace(l \o <<Newline>>))
         IN  [k \in 1..Len(kept) |-> rstrip(kept[k] \o <<Newline>>)]

sanitize_printed(file) ==
    IF ~file.isfile THEN <<Line("invalid_file", 0, <<>>)>> ELSE <<>>

\* parse_workbook_path: workbook name -> project paths, as the names in
\* first-seen order (a dict) and the list of paths of each name
parse_names(workbook_paths) ==
    LET F[k \in 0..Len(workbook_paths)] ==
            IF k = 0 THEN <<>>
            ELSE LET sp == split(rstrip(workbook_paths[k]))
                 IN  DictPut(F[k - 1], sp[Len(sp)])
    IN  F[Len(workbook_paths)]

parse_paths(workbook_paths, workbook_name) ==
    LET mine == SelectSeq(workbook_paths,
                          LAMBDA wp : LET sp == split(rstrip(wp)) IN sp[Len(sp)] = workbook_name)
    IN  [k \in 1..Len(mine) |-> join(ButLast(split(rstrip(mine[k]))))]

\* the server's answer to a workbook query filtered by Name Equals name
WorkbooksNamed(name) == SelectSeq(srvWorkbooks, LAMBDA w : w.name = name)

\* the result of a resolution: dict keys in insertion order, lines printed,
\* requests sent, exception raised (None: none)
Resolved(keys, out, rq, exc) == [keys |-> keys, out |-> out, reqs |-> rq, exc |-> exc]

RECURSIVE AddAll(_, _)
\* variant of lines 174-175 that keeps the first workbook only
AddAll_first(keys, workbooks) ==
    IF Len(workbooks) = 0 THEN keys ELSE DictPut(keys, workbooks[1].id)

\* lines 174-175: every workbook returned goes into the mapping
AddAll(keys, workbooks) ==
    IF Len(workbooks) = 0 THEN keys
    ELSE AddAll(DictPut(keys, workbooks[1].id), Tail(workbooks))

\* a set as a sequence (the order in which Python iterates a set is not
\* specified; the model fixes one)
RECURSIVE SetToSeq(_)
SetToSeq(S) == IF S = {} THEN <<>>
               ELSE LET x == CHOOSE x \in S : TRUE IN <<x>> \o SetToSeq(S \ {x})

\* get_workbooks_from_names, lines 165-175: one query per name
RECURSIVE names_loop(_, _, _)
names_loop(workbook_names, acc, fail) ==
    IF Len(workbook_names) = 0 \/ acc.exc # None THEN acc
    ELSE LET workbook_name == workbook_names[1]
             workbooks == WorkbooksNamed(rstrip(workbook_name))
             rq == PagerReqs("get_workbooks", rstrip(workbook_name), Len(workbooks),
                             Len(acc.reqs), fail)
         IN  names_loop(Tail(workbook_names),
                 IF PagerFailed(Len(workbooks), Len(acc.reqs), fail)
                 THEN Resolved(acc.keys, acc.out, acc.reqs \o rq, "ServerResponseError")
                 ELSE Resolved(AddAll(acc.keys, workbooks),
                               acc.out \o (IF Len(workbooks) = 0
                                           THEN <<Line("no_name", 0, workbook_name)>>
                                           ELSE <<>>),
                               acc.reqs \o rq, None),
                 fail)

get_workbooks_from_names(fail) ==
    names_loop(sanitize_workbook_list(args.name_list),
               Resolved(<<>>, sanitize_printed(args.name_list), <<>>, None), fail)

\* variant of line 153 that leaves the matched path in the set
all_paths_remove_kept(all_paths, path) == all_paths

\* line 153: all_paths.remove(path), for a path of the set
all_paths_remove(all_paths, path) == all_paths \ {path}

\* get_workbooks_from_paths, lines 150-154: the workbooks returned for a name
RECURSIVE match_loop(_, _, _, _)
match_loop(workbooks, workbook_paths, all_projects, st) ==
    IF Len(workbooks) = 0 \/ st.exc # None THEN st
    ELSE LET workbook == workbooks[1]
             path == find_project_path(all_projects[workbook.project_id], all_projects, <<>>)
         IN  match_loop(Tail(workbooks), workbook_paths, all_projects,
                 IF path \in Range(workbook_paths)
                 THEN IF path \in st.all_paths
                      THEN [keys |-> DictPut(st.keys, workbook.id),
                            all_paths |-> all_paths_remove(st.all_paths, path), exc |-> None]
                      ELSE [st EXCEPT !.exc = "KeyError"]
                 ELSE st)

\* get_workbooks_from_paths, lines 143-158: one query per workbook name
RECURSIVE paths_loop(_, _, _, _, _)
paths_loop(names, lines, all_projects, acc, fail) ==
    IF Len(names) = 0 \/ acc.exc # None THEN acc
    ELSE LET workbook_name == names[1]
             workbook_paths == parse_paths(lines, workbook_name)
             workbooks == WorkbooksNamed(workbook_name)
             rq == PagerReqs("get_workbooks", workbook_name, Len(workbooks),
                             Len(acc.reqs), fail)
             st == match_loop(workbooks, workbook_paths, all_projects,
                              [keys |-> acc.keys, all_paths |-> Range(workbook_paths),
                               exc |-> None])
             left == SetToSeq(st.all_paths)
         IN  paths_loop(Tail(names), lines, all_projects,
                 IF PagerFailed(Len(workbooks), Len(acc.reqs), fail)
                 THEN Resolved(acc.keys, acc.out, acc.reqs \o rq, "ServerResponseError")
                 ELSE IF st.exc # None
                 THEN Resolved(st.keys, acc.out, acc.reqs \o rq, st.exc)
                 ELSE Resolved(st.keys,
                               acc.out \o [k \in 1..Len(left) |->
                                   Line("no_path", 0, left[k] \o <<Slash>> \o workbook_name)],
                               acc.reqs \o rq, None),
                 fail)

get_workbooks_from_paths(fail) ==
    LET rq == PagerReqs("get_projects", <<>>, Len(srvProjects), 0, fail)
        all_projects == AllProjects(Pager(srvProjects, pageSize, TRUE))
        lines == sanitize_workbook_list(args.path_list)
    IN  IF PagerFailed(Len(srvProjects), 0, fail)
        THEN Resolved(<<>>, <<>>, rq, "ServerResponseError")
        ELSE paths_loop(parse_names(lines), lines, all_projects,
                        Resolved(<<>>, sanitize_printed(args.path_list), rq, None), fail)

\* get_workbook_from_path, lines 191-195: the first workbook at the path
RECURSIVE first_at_path(_, _, _)
\* variant of lines 191-195 without the break
first_at_path_all(workbooks, workbook_path, all_projects) ==
    LET at == SelectSeq(workbooks, LAMBDA w :
                  find_project_path(all_projects[w.project_id], all_projects, <<>>)
                      = workbook_path)
    IN  [k \in 1..Len(at) |-> at[k].id]

first_at_path(workbooks, workbook_path, all_projects) ==
    IF Len(workbooks) = 0 THEN <<>>
    ELSE IF find_project_path(all_projects[workbooks[1].project_id], all_projects, <<>>)
               = workbook_path
         THEN <<workbooks[1].id>>
         ELSE first_at_path(Tail(workbooks), workbook_path, all_projects)

get_workbook_from_path(fail) ==
    LET rq == PagerReqs("get_projects", <<>>, Len(srvProjects), 0, fail)
        all_projects == AllProjects(Pager(srvProjects, pageSize, TRUE))
        workbook_project == split(rstrip(args.workbook_path.value))
        workbook_path == join(ButLast(workbook_project))
        workbook_name == workbook_project[Len(workbook_project)]
        workbooks == WorkbooksNamed(workbook_name)
        rq2 == PagerReqs("get_workbooks", workbook_name, Len(workbooks), Len(rq), fail)
    IN  IF PagerFailed(Len(srvProjects), 0, fail)
        THEN Resolved(<<>>, <<>>, rq, "ServerResponseError")
        ELSE IF PagerFailed(Len(workbooks), Len(rq), fail)
        THEN Resolved(<<>>, <<>>, rq \o rq2, "ServerResponseError")
        ELSE Resolved(first_at_path(workbooks, workbook_path, all_projects),
                      <<>>, rq \o rq2, None)

\* ------------------------------------------------------------------------
\* The Tasks endpoint (tableauserverclient/server/endpoint/tasks_endpoint.py)
\* ------------------------------------------------------------------------
\* the attributes of a Tasks object that can be called
TasksMethods_with_delete ==
    {"baseurl", "get", "get_by_id", "run", "delete_task_type_and_id", "delete"}

TasksMethods == {"baseurl", "get", "get_by_id", "run", "delete_task_type_and_id"}

\* the server's task list without task id
WithoutTask(srv, id) == SelectSeq(srv, LAMBDA t : t.id # id)

\* ------------------------------------------------------------------------
\* Control flow
\* ------------------------------------------------------------------------
SignOut == Req("sign_out", 0, 0, <<>>, TRUE)

\* a workflow returns v to main (lines 78-107): False ends the program,
\* otherwise --status is looked at
Return(v) ==
    /\ ret' = v
    /\ pc' = IF caller = "main" /\ v = "True" /\ args.status
             THEN "show_materialized_views_status"
             ELSE "done"

\* an exception nobody catches ends the program
Raise(e) ==
    /\ ret' = e
    /\ pc' = "done"

\* leaving a `with server.auth.sign_in(...)` block after sending rq
LeaveWith(rq) ==
    /\ reqs' = reqs \o rq \o <<SignOut>>
    /\ signedIn' = FALSE

\* `with server.auth.sign_in(tableau_auth):` of a workflow; an error of the
\* sign-in request is an exception in the caller
SignIn(at, body) ==
    /\ pc = at
    /\ \E ok \in BOOLEAN :
        /\ reqs' = Append(reqs, Req("sign_in", 0, 0, <<>>, ok))
        /\ signedIn' = ok
        /\ IF ok THEN pc' = body /\ ret' = ret
                 ELSE Raise("ServerResponseError")
    /\ UNCHANGED <<args, printed, server, locals, caller, answers, processed>>

\* choices of --hourly-interval, line 48
HourlyIntervalChoices == {"0.25", "0.5", "2", "1", "4", "6", "8", "12"}

\* choices of --weekly-interval, line 51
WeeklyIntervalChoices ==
    {"Sunday", "Monday", "Tuesday", "Wednesday", "Thursday", "Friday", "Saturday"}

\* choices of --start-minute, line 59: the strings '0', '15', '30', '45'
StartMinuteChoices == {0, 15, 30, 45}

\* variant of line 52 with nargs="*"
weekly_nargs_star(days) == TRUE

\* nargs="+" of --weekly-interval, line 52: one value or more
weekly_nargs(days) == Len(days) >= 1

\* lines 58-59: a start minute typed on the command line is one of the choices
start_minute_choice(minute) ==
    minute.t = "str" => (minute.whole /\ minute.n \in StartMinuteChoices)

\* parser.parse_args(), line 63: does argparse accept the command line
parse_args ==
    /\ args.hourly_interval # None => args.hourly_interval \in HourlyIntervalChoices
    /\ args.weekly_interval.given =>
          /\ weekly_nargs(args.weekly_interval.days)
          /\ Range(args.weekly_interval.days) \subseteq WeeklyIntervalChoices
    /\ start_minute_choice(args.start_minute)

\* main(), lines 63-107: the command line is parsed (an error of argparse
\* ends the program with SystemExit), then the dispatch on the options
main ==
    /\ pc = "main"
    /\ IF ~parse_args
       THEN /\ printed' = Append(printed, Line("usage", 0, <<>>))
            /\ Raise("SystemExit")
       ELSE /\ pc' = IF \/ args.show_schedules \/ args.create_schedule # None
                        \/ args.remove_from_schedule \/ args.add_to_schedule # None
                     THEN "handle_schedule_command"
                     ELSE IF args.type = "site" THEN "update_site"
                     ELSE IF args.type = "workbook" /\ args.mode # None
                     THEN "update_workbook"
                     ELSE IF args.type = "project-name" THEN "update_project_by_name"
                     ELSE IF args.type = "project-path" THEN "update_project_by_path"
                     ELSE IF args.status THEN "show_materialized_views_status"
                     ELSE "done"
            /\ UNCHANGED <<ret, printed>>
    /\ UNCHANGED <<args, signedIn, reqs, server, locals, caller, answers, processed>>

\* assert_schedule_action_options_valid, lines 806-822
NumActions ==
    (IF args.add_to_schedule # None THEN 1 ELSE 0)
    + (IF args.remove_from_schedule THEN 1 ELSE 0)
    + (IF args.create_schedule # None THEN 1 ELSE 0)
    + (IF args.show_schedules THEN 1 ELSE 0)

NoWorkbooksGiven ==
    ~args.name_list.given /\ ~args.path_list.given /\ ~args.workbook_path.given

NoIntervalGiven ==
    /\ ~args.weekly_interval.given /\ ~args.daily_interval
    /\ args.monthly_interval.t = None /\ args.hourly_interval = None

assert_schedule_action_options_valid ==
    IF NumActions > 1
    THEN [ok |-> FALSE, out |-> <<Line("use_one_action", 0, <<>>)>>]
    ELSE IF (args.add_to_schedule # None \/ args.remove_from_schedule) /\ NoWorkbooksGiven
    THEN [ok |-> FALSE, out |-> <<Line("specify_workbooks", 0, <<>>)>>]
    ELSE IF args.create_schedule # None /\ NoIntervalGiven
    THEN [ok |-> FALSE, out |-> <<Line("specify_interval", 0, <<>>)>>]
    ELSE [ok |-> TRUE, out |-> <<>>]

\* handle_schedule_command, lines 488-501: the result of the assertion is
\* not looked at
handle_schedule_command ==
    /\ pc = "handle_schedule_command"
    /\ LET valid == assert_schedule_action_options_valid
       IN  IF args.show_schedules
           THEN /\ pc' = "show_materialized_views_schedules"
                /\ printed' = printed \o valid.out
                /\ ret' = ret
           ELSE IF args.remove_from_schedule
           THEN /\ pc' = "remove_workbook_from_materialized_views"
                /\ printed' = printed \o valid.out
                /\ ret' = ret
           ELSE IF args.add_to_schedule # None
           THEN /\ pc' = "add_workbooks_to_schedule"
                /\ printed' = printed \o valid.out
                /\ ret' = ret
           ELSE IF args.create_schedule \notin {None, ""}
           THEN /\ pc' = "create_materialized_view_schedule"
                /\ printed' = printed \o valid.out
                /\ ret' = ret
           ELSE /\ printed' = printed \o valid.out \o <<Line("unrecognized", 0, <<>>)>>
                /\ Return("False")
    /\ UNCHANGED <<args, signedIn, reqs, server, locals, caller, answers, processed>>

\* ------------------------------------------------------------------------
\* Steps shared by the schedule workflows
\* ------------------------------------------------------------------------
\* list(TSC.Pager(lambda options: server.tasks.get(task_type="materializeViews")))
\* (lines 204, 248, 332): the lambda drops the options the Pager passes
TaskListing == Pager(srvTasks, pageSize, FALSE)

\* variant of the task listing in a session that is signed out by a call after
\* the listing, not by a with block
ListTasks_no_with(at, next) ==
    /\ pc = at
    /\ \E fail \in 0..NumPages(Len(srvTasks), pageSize) :
        LET rq == PagerReqs("get_tasks", <<>>, Len(srvTasks), 0, fail)
        IN  /\ reqs' = reqs \o rq
            /\ IF fail # 0
               THEN /\ Raise("ServerResponseError")
                    /\ UNCHANGED <<tasks, signedIn>>
               ELSE /\ tasks' = TaskListing
                    /\ pc' = next
                    /\ UNCHANGED <<ret, signedIn>>
    /\ UNCHANGED <<args, printed, server, schedule, workbook_id_to_workbook,
                   workbook_id_to_task, table, num, todo, caller, answers, processed>>

ListTasks(at, next) ==
    /\ pc = at
    /\ \E fail \in 0..NumPages(Len(srvTasks), pageSize) :
        LET rq == PagerReqs("get_tasks", <<>>, Len(srvTasks), 0, fail)
        IN  IF fail # 0
            THEN /\ LeaveWith(rq)
                 /\ Raise("ServerResponseError")
                 /\ tasks' = tasks
            ELSE /\ reqs' = reqs \o rq
                 /\ tasks' = TaskListing
                 /\ pc' = next
                 /\ UNCHANGED <<ret, signedIn>>
    /\ UNCHANGED <<args, printed, server, schedule, workbook_id_to_workbook,
                   workbook_id_to_task, table, num, todo, caller, answers, processed>>

\* the if/elif chain that resolves the workbooks of the command line (lines
\* 205-211, 249-253, 334-340); single: the chain has the --workbook-path arm
ResolveBy(single, fail) ==
    IF args.path_list.given THEN get_workbooks_from_paths(fail)
    ELSE IF args.name_list.given THEN get_workbooks_from_names(fail)
    ELSE IF single /\ args.workbook_path.given THEN get_workbook_from_path(fail)
    ELSE Resolved(<<>>, <<>>, <<>>, None)

ResolvesNone(single) ==
    ~args.path_list.given /\ ~args.name_list.given /\ ~(single /\ args.workbook_path.given)

Resolve(at, next, single) ==
    /\ pc = at
    /\ \E fail \in 0..Len(ResolveBy(single, 0).reqs) :
        LET r == ResolveBy(single, fail)
        IN  /\ printed' = printed \o r.out
            /\ IF r.exc # None
               THEN /\ LeaveWith(r.reqs)
                    /\ Raise(r.exc)
                    /\ UNCHANGED workbook_id_to_workbook
               ELSE /\ reqs' = reqs \o r.reqs
                    /\ workbook_id_to_workbook' =
                           [none |-> ResolvesNone(single), keys |-> r.keys]
                    /\ pc' = next
                    /\ UNCHANGED <<ret, signedIn>>
    /\ UNCHANGED <<args, server, schedule, tasks, workbook_id_to_task, table, num,
                   todo, caller, answers, processed>>

\* ------------------------------------------------------------------------
\* Attach: add_workbooks_to_schedule, lines 321-342
\* ------------------------------------------------------------------------
add_workbooks_to_schedule ==
    SignIn("add_workbooks_to_schedule", "find_schedule")

\* find_schedule, lines 258-266: the first schedule with the name
FirstNamed(schedules, schedule_name) ==
    IF \E k \in 1..Len(schedules) : schedules[k].name = schedule_name
    THEN schedules[CHOOSE k \in 1..Len(schedules) :
                       /\ schedules[k].name = schedule_name
                       /\ \A j \in 1..(k - 1) : schedules[j].name # schedule_name]
    ELSE NoSchedule

\* lines 327-330
find_schedule ==
    /\ pc = "find_schedule"
    /\ \E fail \in 0..NumPages(Len(SrvSchedules), pageSize) :
        LET rq == PagerReqs("get_schedules", <<>>, Len(SrvSchedules), 0, fail)
            found == FirstNamed(Pager(SrvSchedules, pageSize, TRUE), args.add_to_schedule)
        IN  IF fail # 0
            THEN /\ LeaveWith(rq)
                 /\ Raise("ServerResponseError")
                 /\ UNCHANGED <<printed, schedule>>
            ELSE IF found = NoSchedule
            THEN /\ LeaveWith(rq)
                 /\ printed' = Append(printed, Line("no_schedule", 0, <<>>))
                 /\ Return("False")
                 /\ UNCHANGED schedule
            ELSE /\ reqs' = reqs \o rq
                 /\ schedule' = found
                 /\ pc' = "add_list_tasks"
                 /\ UNCHANGED <<ret, signedIn, printed>>
    /\ UNCHANGED <<args, server, tasks, workbook_id_to_workbook, workbook_id_to_task,
                   table, num, todo, caller, answers, processed>>

\* line 332
add_list_tasks == ListTasks("add_list_tasks", "add_resolve")

\* lines 334-340
add_resolve == Resolve("add_resolve", "add_to_materialized_views_schedule", TRUE)

\* variant of lines 285-289 without the test of the target type
TaskMap_any_type(listing) ==
    LET wt == SelectSeq(listing, LAMBDA t : t.target # NoTarget)
    IN  [w \in {wt[k].target.id : k \in 1..Len(wt)} |->
            wt[CHOOSE k \in 1..Len(wt) :
                   wt[k].target.id = w /\ \A j \in (k + 1)..Len(wt) : wt[j].target.id # w]]

\* lines 285-289: the last task of the listing for each workbook id
TaskMap(listing) ==
    LET wt == SelectSeq(listing, LAMBDA t : t.target.type = "workbook")
    IN  [w \in {wt[k].target.id : k \in 1..Len(wt)} |->
            wt[CHOOSE k \in 1..Len(wt) :
                   wt[k].target.id = w /\ \A j \in (k + 1)..Len(wt) : wt[j].target.id # w]]

\* add_to_materialized_views_schedule, lines 281-295: up to the loop
add_to_materialized_views_schedule ==
    /\ pc = "add_to_materialized_views_schedule"
    /\ IF schedule = NoSchedule \/ workbook_id_to_workbook.none
       THEN \* line 283, then the with block of the caller ends
            /\ LeaveWith(<<>>)
            /\ Return("True")
            /\ UNCHANGED <<workbook_id_to_task, table, num, todo>>
       ELSE IF \E k \in 1..Len(tasks) : tasks[k].target = NoTarget
       THEN \* line 288: None has no attribute type
            /\ LeaveWith(<<>>)
            /\ Raise("AttributeError")
            /\ UNCHANGED <<workbook_id_to_task, table, num, todo>>
       ELSE /\ workbook_id_to_task' = TaskMap(tasks)
            /\ table' = <<>>
            /\ num' = 0
            /\ todo' = workbook_id_to_workbook.keys
            /\ pc' = "add_to_materialized_views_schedule_loop"
            /\ UNCHANGED <<ret, signedIn, reqs>>
    /\ UNCHANGED <<args, printed, server, schedule, tasks, workbook_id_to_workbook,
                   caller, answers, processed>>

\* a row of the result table of Attach and Detach: workbook, schedule
Row(w, sch) == [w |-> w, s |-> sch]

\* the task the server creates when a workbook is added to a schedule
NewTask(id, w, sch) == [id |-> id, target |-> [id |-> w, type |-> "workbook"], sched |-> sch]

\* variant of line 302 that compares the id of the task, not of its schedule
OnTarget_task_id(task) == task.id = schedule.id

\* line 302: the task is on the schedule the workbook is to be added to
OnTarget(task) == task.sched = schedule.id

\* variant of lines 305-307 that replaces the old task whatever the answer
Replaces_any_answer(answer) == TRUE

\* lines 305-307: the old task is replaced if the user answers Y
Replaces(answer) == answer

\* add_to_materialized_views_schedule, lines 296-314: one workbook of the loop
add_to_materialized_views_schedule_loop ==
    /\ pc = "add_to_materialized_views_schedule_loop"
    /\ todo # <<>>
    /\ \E answer \in BOOLEAN, ok_delete \in BOOLEAN, ok_add \in BOOLEAN :
        LET workbook == todo[1]
            has == workbook \in DOMAIN workbook_id_to_task
            task == IF has THEN workbook_id_to_task[workbook] ELSE NoTask
            same == has /\ OnTarget(task)
            asked == has /\ ~same
            replace == asked /\ Replaces(answer)
            \* line 308: server.tasks.delete
            noMethod == replace /\ "delete" \notin TasksMethods
            del == replace /\ ~noMethod
            delOk == del /\ ok_delete
            \* line 310
            add == ~has \/ delOk
            addOk == add /\ ok_add
            rq == (IF del THEN <<Req("delete_task", task.id, 0, <<>>, ok_delete)>> ELSE <<>>)
                  \o (IF add THEN <<Req("add_to_schedule", schedule.id, workbook, <<>>, ok_add)>>
                      ELSE <<>>)
            srv1 == IF delOk THEN WithoutTask(srvTasks, task.id) ELSE srvTasks
            srv2 == IF addOk THEN Append(srv1, NewTask(nextTaskId, workbook, schedule.id))
                    ELSE srv1
            out == (IF has THEN <<LineOn("already_on", workbook, task.sched)>> ELSE <<>>)
                   \o (IF (del /\ ~ok_delete) \/ (add /\ ~ok_add)
                       THEN <<Line("error", workbook, <<>>)>> ELSE <<>>)
            row == IF same \/ addOk THEN <<Row(workbook, schedule.id)>>
                   ELSE IF asked /\ ~replace THEN <<Row(workbook, task.sched)>>
                   ELSE <<>>
        IN  /\ answers' = IF asked THEN Append(answers, [w |-> workbook, yes |-> answer])
                          ELSE answers
            /\ printed' = printed \o out
            /\ srvTasks' = srv2
            /\ nextTaskId' = IF addOk THEN nextTaskId + 1 ELSE nextTaskId
            /\ table' = table \o row
            /\ num' = IF addOk THEN num + 1 ELSE num
            /\ IF noMethod
               THEN /\ LeaveWith(<<>>)
                    /\ Raise("AttributeError")
                    /\ UNCHANGED <<todo, processed>>
               ELSE /\ reqs' = reqs \o rq
                    /\ todo' = Tail(todo)
                    /\ processed' = Append(processed, workbook)
                    /\ UNCHANGED <<pc, ret, signedIn>>
    /\ UNCHANGED <<args, srvProjects, srvWorkbooks, siteMode, pageSize, schedule, tasks,
                   workbook_id_to_workbook, workbook_id_to_task, caller>>

\* lines 316-318 and the end of the with block, line 342
add_to_materialized_views_schedule_end ==
    /\ pc = "add_to_materialized_views_schedule_loop"
    /\ todo = <<>>
    /\ printed' = printed \o (IF num > 0 THEN <<Table(table)>> ELSE <<>>)
                          \o <<Line("newline", 0, <<>>)>>
    /\ LeaveWith(<<>>)
    /\ Return("True")
    /\ UNCHANGED <<args, server, locals, caller, answers, processed>>

\* ------------------------------------------------------------------------
\* Detach: remove_workbook_from_materialized_views, lines 244-255
\* ------------------------------------------------------------------------
remove_workbook_from_materialized_views ==
    SignIn("remove_workbook_from_materialized_views", "remove_list_tasks")

\* line 248
remove_list_tasks == ListTasks("remove_list_tasks", "remove_resolve")

\* lines 249-253
remove_resolve == Resolve("remove_resolve", "remove_materialized_views_tasks", FALSE)

\* def remove_materialized_views_tasks(server, tasks, workbook_id_to_workbook)
remove_materialized_views_tasks_params == <<"server", "tasks", "workbook_id_to_workbook">>

\* the positional arguments of the call in line 254
remove_materialized_views_tasks_call ==
    <<"server", "tasks", "workbook_id_to_workbook", "args.remove_from_schedule">>

\* the state of the loop of remove_materialized_views_tasks
Removal(rq, srv, n, rows, out, exc) ==
    [reqs |-> rq, srv |-> srv, num |-> n, table |-> rows, out |-> out, exc |-> exc]

\* remove_materialized_views_tasks, lines 228-236; failing: the ids of the
\* tasks whose DELETE the server answers with an error
RECURSIVE remove_loop(_, _, _, _)
remove_loop(listing, keys, failing, st) ==
    IF Len(listing) = 0 \/ st.exc # None THEN st
    ELSE LET task == listing[1]
             held == \E k \in 1..Len(st.srv) : st.srv[k].id = task.id
             ok == held /\ task.id \notin failing
         IN  remove_loop(Tail(listing), keys, failing,
                 IF task.target = NoTarget
                 THEN [st EXCEPT !.exc = "AttributeError"]
                 ELSE IF task.target.id \notin Range(keys)
                 THEN st
                 ELSE IF "delete" \notin TasksMethods
                 THEN [st EXCEPT !.exc = "AttributeError"]
                 ELSE IF ok
                 THEN Removal(Append(st.reqs, Req("delete_task", task.id, 0, <<>>, TRUE)),
                              WithoutTask(st.srv, task.id), st.num + 1,
                              Append(st.table, Row(task.target.id, task.sched)),
                              st.out, None)
                 ELSE Removal(Append(st.reqs, Req("delete_task", task.id, 0, <<>>, FALSE)),
                              st.srv, st.num, st.table,
                              Append(st.out, Line("error", task.target.id, <<>>)), None))

\* the call of line 254 and remove_materialized_views_tasks, lines 216-241
remove_materialized_views_tasks ==
    /\ pc = "remove_materialized_views_tasks"
    /\ IF Len(remove_materialized_views_tasks_call) # Len(remove_materialized_views_tasks_params)
       THEN \* the call does not match the signature
            /\ LeaveWith(<<>>)
            /\ Raise("TypeError")
            /\ UNCHANGED <<printed, srvTasks, table, num>>
       ELSE IF workbook_id_to_workbook.none \/ Len(workbook_id_to_workbook.keys) = 0
       THEN /\ printed' = Append(printed, Line("no_workbooks", 0, <<>>))
            /\ LeaveWith(<<>>)
            /\ Return("True")
            /\ UNCHANGED <<srvTasks, table, num>>
       ELSE IF Len(tasks) = 0
       THEN /\ printed' = Append(printed, Line("no_tasks", 0, <<>>))
            /\ LeaveWith(<<>>)
            /\ Return("True")
            /\ UNCHANGED <<srvTasks, table, num>>
       ELSE \E failing \in SUBSET {tasks[k].id : k \in 1..Len(tasks)} :
            LET st == remove_loop(tasks, workbook_id_to_workbook.keys, failing,
                                  Removal(<<>>, srvTasks, 0, <<>>, <<>>, None))
            IN  /\ srvTasks' = st.srv
                /\ table' = st.table
                /\ num' = st.num
                /\ LeaveWith(st.reqs)
                /\ IF st.exc # None
                   THEN /\ printed' = printed \o st.out
                        /\ Raise(st.exc)
                   ELSE /\ printed' = printed \o st.out \o
                                      (IF st.num > 0 THEN <<Table(st.table)>>
                                       ELSE <<Line("none_removed", 0, <<>>)>>)
                        /\ Return("True")
    /\ UNCHANGED <<args, srvProjects, srvWorkbooks, siteMode, pageSize, nextTaskId,
                   schedule, tasks, workbook_id_to_workbook, workbook_id_to_task, todo,
                   caller, answers, processed>>

\* ------------------------------------------------------------------------
\* Show: show_materialized_views_schedules, lines 200-213
\* ------------------------------------------------------------------------
show_materialized_views_schedules ==
    SignIn("show_materialized_views_schedules", "show_list_tasks")

\* line 204
show_list_tasks == ListTasks("show_list_tasks", "show_resolve")

\* lines 205-211
show_resolve == Resolve("show_resolve", "print_materialized_views_tasks", TRUE)

\* the state of the loop of print_materialized_views_tasks
Listing(rq, rows, exc) == [reqs |-> rq, table |-> rows, exc |-> exc]

\* print_materialized_views_tasks, lines 122-131; fail: the number of the
\* get_by_id request the server answers with an error (0: none)
RECURSIVE print_loop(_, _, _)
print_loop(listing, fail, st) ==
    IF Len(listing) = 0 \/ st.exc # None THEN st
    ELSE LET task == listing[1]
             exists == \E k \in 1..Len(srvWorkbooks) : srvWorkbooks[k].id = task.target.id
             ok == exists /\ Len(st.reqs) + 1 # fail
             rq == Append(st.reqs, Req("get_workbook_by_id", task.target.id, 0, <<>>, ok))
             shown == \/ workbook_id_to_workbook.none
                      \/ task.target.id \in Range(workbook_id_to_workbook.keys)
         IN  print_loop(Tail(listing), fail,
                 IF task.target = NoTarget
                 THEN [st EXCEPT !.exc = "AttributeError"]
                 ELSE IF ~ok
                 THEN Listing(rq, st.table, "ServerResponseError")
                 ELSE Listing(rq, IF shown THEN Append(st.table, Row(task.target.id, task.sched))
                                  ELSE st.table, None))

\* print_materialized_views_tasks, lines 115-136, and the end of the with
\* block, line 213
print_materialized_views_tasks ==
    /\ pc = "print_materialized_views_tasks"
    /\ \E fail \in 0..Len(tasks) :
        LET st == print_loop(tasks, fail, Listing(<<>>, <<>>, None))
        IN  /\ LeaveWith(st.reqs)
            /\ IF st.exc # None
               THEN /\ Raise(st.exc)
                    /\ UNCHANGED printed
               ELSE /\ printed' = Append(printed, IF Len(st.table) = 0
                                                  THEN Line("tasks_none", 0, <<>>)
                                                  ELSE Table(st.table))
                    /\ Return("True")
    /\ UNCHANGED <<args, server, locals, caller, answers, processed>>

\* ------------------------------------------------------------------------
\* CreateSchedule: create_materialized_view_schedule, lines 345-485
\* ------------------------------------------------------------------------
\* the outcome of a step of verify_time_arguments: the value returned or the
\* exception raised (None: the function goes on), the type selected so far
\* and the lines printed
Verified(r, sel, out) == [r |-> r, sel |-> sel, out |-> out]

\* variant of schedule_type_none that accepts a second schedule type
schedule_type_none_any(schedule_type) == TRUE

\* schedule_type_none, lines 346-352
schedule_type_none(schedule_type) == schedule_type = None

\* lo <= float(x) <= hi, for a value x that float() parses
InRange(lo, x, hi) ==
    IF x.whole THEN lo <= x.n /\ x.n <= hi
    ELSE lo <= x.n /\ x.n + 1 <= hi

\* lines 354-358
verify_start_time ==
    LET h == args.start_hour
        m == args.start_minute
        bad == Verified("False", None, <<Line("provide_start_time", 0, <<>>)>>)
    IN  IF h.t = None THEN bad
        ELSE IF ~h.lit THEN Verified("ValueError", None, <<>>)
        ELSE IF ~InRange(0, h, 23) THEN bad
        ELSE IF m.t = None THEN bad
        ELSE IF ~m.lit THEN Verified("ValueError", None, <<>>)
        ELSE IF ~InRange(0, m, 59) THEN bad
        ELSE Verified(None, None, <<>>)

\* lines 360-362
verify_daily(v) ==
    IF v.r # None THEN v
    ELSE IF args.daily_interval THEN Verified(None, "daily-interval", v.out)
    ELSE v

\* lines 364-368
verify_weekly(v) ==
    IF v.r # None \/ ~args.weekly_interval.given THEN v
    ELSE IF schedule_type_none(v.sel) THEN Verified(None, "weekly-interval", v.out)
    ELSE Verified("False", v.sel, Append(v.out, Line("select_one_type", 0, <<>>)))

\* lines 370-377
verify_monthly(v) ==
    IF v.r # None \/ args.monthly_interval.t = None THEN v
    ELSE IF schedule_type_none(v.sel)
    THEN IF ~args.monthly_interval.whole THEN Verified("ValueError", v.sel, v.out)
         ELSE IF ~(1 <= args.monthly_interval.n /\ args.monthly_interval.n <= 31)
         THEN Verified("False", v.sel, Append(v.out, Line("monthly_range", 0, <<>>)))
         ELSE Verified(None, "monthly-interval", v.out)
    ELSE Verified("False", v.sel, Append(v.out, Line("select_one_type", 0, <<>>)))

\* lines 379-388: the end time is compared without a conversion
verify_hourly(v) ==
    LET h == args.end_hour
        m == args.end_minute
        bad == Verified("False", v.sel, Append(v.out, Line("provide_end_time", 0, <<>>)))
    IN  IF v.r # None \/ args.hourly_interval = None THEN v
        ELSE IF schedule_type_none(v.sel)
        THEN IF h.t = None THEN bad
             ELSE IF h.t = "str" THEN Verified("TypeError", v.sel, v.out)
             ELSE IF ~(0 <= h.n /\ h.n <= 23) THEN bad
             ELSE IF m.t = None THEN bad
             ELSE IF m.t = "str" THEN Verified("TypeError", v.sel, v.out)
             ELSE IF ~(0 <= m.n /\ m.n <= 59) THEN bad
             ELSE Verified(None, "hourly-schedule", v.out)
        ELSE Verified("False", v.sel, Append(v.out, Line("select_one_type", 0, <<>>)))

\* verify_time_arguments, lines 345-390
verify_time_arguments ==
    LET v == verify_hourly(verify_monthly(verify_weekly(verify_daily(verify_start_time))))
    IN  IF v.r # None THEN v
        ELSE Verified(IF v.sel # None THEN "True" ELSE "False", v.sel, v.out)

\* lines 466-467
create_materialized_view_schedule ==
    /\ pc = "create_materialized_view_schedule"
    /\ LET v == verify_time_arguments
       IN  /\ printed' = printed \o v.out
           /\ IF v.r = "True" THEN pc' = "create_sign_in" /\ ret' = ret
              ELSE IF v.r = "False" THEN Return("False")
              ELSE Raise(v.r)
    /\ UNCHANGED <<args, signedIn, reqs, server, locals, caller, answers, processed>>

\* line 472; the ServerResponseError of a failed sign-in is caught in line 481
create_sign_in ==
    /\ pc = "create_sign_in"
    /\ \E ok \in BOOLEAN :
        /\ reqs' = Append(reqs, Req("sign_in", 0, 0, <<>>, ok))
        /\ signedIn' = ok
        /\ IF ok THEN pc' = "create_schedule" /\ UNCHANGED <<ret, printed>>
                 ELSE /\ printed' = Append(printed, Line("error", 0, <<>>))
                      /\ Return("False")
    /\ UNCHANGED <<args, server, locals, caller, answers, processed>>

\* lines 473-480: the interval kind the schedule is created with
create_kind ==
    IF args.hourly_interval # None THEN "hourly"
    ELSE IF args.daily_interval THEN "daily"
    ELSE IF args.weekly_interval.given THEN "weekly"
    ELSE "monthly"

\* get_hour_interval, lines 393-397: the quarter and the half hour as a
\* float, the other steps as an int
get_hour_interval(hour_interval) ==
    IF hour_interval \in {"0.25", "0.5"} THEN <<"float", hour_interval>>
    ELSE <<"int", hour_interval>>

\* time(int(hour), int(minute)), lines 401-402, 418, 433, 449
time(hour, minute) == <<hour.n, minute.n>>

\* the interval of the schedule item, lines 401-403, 418, 433-434, 449-450
interval ==
    LET start_time == time(args.start_hour, args.start_minute)
    IN  IF create_kind = "hourly"
        THEN <<"hourly">> \o start_time \o time(args.end_hour, args.end_minute)
                          \o get_hour_interval(args.hourly_interval)
        ELSE IF create_kind = "daily" THEN <<"daily">> \o start_time
        ELSE IF create_kind = "weekly"
        THEN <<"weekly">> \o start_time \o args.weekly_interval.days
        ELSE <<"monthly">> \o start_time \o <<args.monthly_interval.n>>

\* int() of an hour or minute of the interval raises ValueError
interval_raises ==
    \/ ~args.start_hour.whole \/ ~args.start_minute.whole
    \/ create_kind = "hourly" /\ (~args.end_hour.whole \/ ~args.end_minute.whole)

\* create_*_schedule, lines 400-461, then lines 481-485
create_schedule ==
    /\ pc = "create_schedule"
    /\ IF interval_raises
       THEN /\ LeaveWith(<<>>)
            /\ Raise("ValueError")
            /\ UNCHANGED printed
       ELSE \E ok \in BOOLEAN :
            /\ LeaveWith(<<Req("create_schedule", 0, 0, interval, ok)>>)
            /\ IF ok
               THEN /\ printed' = Append(printed, Line("created", 0, <<create_kind>>))
                    /\ Return("True")
               ELSE /\ printed' = Append(printed, Line("error", 0, <<>>))
                    /\ Return("False")
    /\ UNCHANGED <<args, server, locals, caller, answers, processed>>

\* ------------------------------------------------------------------------
\* Workbook updates: update_workbook, lines 682-771
\* ------------------------------------------------------------------------
\* create_materialized_views_config, lines 789-793
materialized_views_enabled == args.mode = "enable"

\* server.workbooks.update(workbook) with the configuration of the command
UpdateReq(w, ok) ==
    Req("update_workbook", w, IF materialized_views_enabled THEN 1 ELSE 0, <<>>, ok)

\* the state of a bulk update: requests sent, rows of the table,
\* num_enabled_workbook, lines printed, exception raised
Updating(rq, rows, n, out, exc) ==
    [reqs |-> rq, table |-> rows, num |-> n, out |-> out, exc |-> exc]

\* lines 693-698
update_workbook ==
    /\ pc = "update_workbook"
    /\ IF NoWorkbooksGiven
       THEN /\ printed' = Append(printed, Line("specify_workbooks", 0, <<>>))
            /\ Return("False")
       ELSE /\ pc' = "update_workbook_sign_in"
            /\ UNCHANGED <<ret, printed>>
    /\ UNCHANGED <<args, signedIn, reqs, server, locals, caller, answers, processed>>

\* line 702
update_workbook_sign_in == SignIn("update_workbook_sign_in", "update_workbook_site")

\* variant of line 827 that takes no site for disabled
site_disabled_never(mode) == FALSE

\* line 827: parent_site.materialized_views_mode == "disable"
site_disabled(mode) == mode = "disable"

\* assert_site_enabled_for_materialized_views, lines 825-830, as the first
\* statement of a with block
SiteEnabled(at, next) ==
    /\ pc = at
    /\ \E ok \in BOOLEAN :
        LET rq == <<Req("get_site", 0, 0, <<>>, ok)>>
        IN  IF ~ok
            THEN /\ LeaveWith(rq)
                 /\ Raise("ServerResponseError")
                 /\ UNCHANGED printed
            ELSE IF site_disabled(siteMode)
            THEN /\ LeaveWith(rq)
                 /\ printed' = Append(printed, Line("site_disabled", 0, <<>>))
                 /\ Return("False")
            ELSE /\ reqs' = reqs \o rq
                 /\ pc' = next
                 /\ UNCHANGED <<ret, signedIn, printed>>
    /\ UNCHANGED <<args, server, locals, caller, answers, processed>>

\* lines 703-704
update_workbook_site == SiteEnabled("update_workbook_site", "update_workbook_body")

\* update_workbooks_by_names, lines 759-763: the workbooks of one name
RECURSIVE update_named(_, _, _)
update_named(workbooks, fail, st) ==
    IF Len(workbooks) = 0 \/ st.exc # None THEN st
    ELSE LET workbook == workbooks[1]
             ok == Len(st.reqs) + 1 # fail
         IN  update_named(Tail(workbooks), fail,
                 IF ok
                 THEN Updating(Append(st.reqs, UpdateReq(workbook.id, TRUE)),
                               Append(st.table, workbook.id), st.num,
                               Append(st.out, Line("updated", workbook.id, <<>>)), None)
                 ELSE Updating(Append(st.reqs, UpdateReq(workbook.id, FALSE)),
                               st.table, st.num, st.out, "ServerResponseError"))

\* update_workbooks_by_names, lines 750-763
RECURSIVE update_names_loop(_, _, _)
update_names_loop(workbook_names, fail, st) ==
    IF Len(workbook_names) = 0 \/ st.exc # None THEN st
    ELSE LET workbook_name == workbook_names[1]
             workbooks == WorkbooksNamed(rstrip(workbook_name))
             rq == PagerReqs("get_workbooks", rstrip(workbook_name), Len(workbooks),
                             Len(st.reqs), fail)
         IN  update_names_loop(Tail(workbook_names), fail,
                 IF PagerFailed(Len(workbooks), Len(st.reqs), fail)
                 THEN Updating(st.reqs \o rq, st.table, st.num, st.out, "ServerResponseError")
                 ELSE update_named(workbooks, fail,
                          Updating(st.reqs \o rq, st.table, st.num,
                                   st.out \o (IF Len(workbooks) = 0
                                              THEN <<Line("no_name", 0, workbook_name)>>
                                              ELSE <<>>), None)))

\* the report of a bulk update, lines 737-743 and 765-771
UpdateReport(st) ==
    IF st.num = 0 THEN <<Line("workbooks_none", 0, <<>>)>> ELSE <<Table(st.table)>>

\* update_workbooks_by_names, lines 746-771
update_workbooks_by_names(fail) ==
    LET st == update_names_loop(sanitize_workbook_list(args.name_list), fail,
                  Updating(<<>>, <<>>, 0, sanitize_printed(args.name_list), None))
    IN  IF st.exc # None THEN st
        ELSE [st EXCEPT !.out = @ \o UpdateReport(st)]

\* update_workbooks_by_paths, lines 726-733: the workbooks returned for a name
RECURSIVE update_matching(_, _, _, _, _)
update_matching(workbooks, workbook_paths, all_projects, fail, st) ==
    IF Len(workbooks) = 0 \/ st.exc # None THEN st
    ELSE LET workbook == workbooks[1]
             path == find_project_path(all_projects[workbook.project_id], all_projects, <<>>)
             ok == Len(st.reqs) + 1 # fail
         IN  update_matching(Tail(workbooks), workbook_paths, all_projects, fail,
                 IF path \notin Range(workbook_paths) THEN st
                 ELSE IF path \notin st.all_paths THEN [st EXCEPT !.exc = "KeyError"]
                 ELSE IF ok
                 THEN [reqs |-> Append(st.reqs, UpdateReq(workbook.id, TRUE)),
                       table |-> Append(st.table, workbook.id), num |-> st.num + 1,
                       out |-> st.out, exc |-> None, all_paths |-> st.all_paths \ {path}]
                 ELSE [reqs |-> Append(st.reqs, UpdateReq(workbook.id, FALSE)),
                       table |-> st.table, num |-> st.num, out |-> st.out,
                       exc |-> "ServerResponseError", all_paths |-> st.all_paths \ {path}])

\* update_workbooks_by_paths, lines 719-736
RECURSIVE update_paths_loop(_, _, _, _, _)
update_paths_loop(names, lines, all_projects, fail, st) ==
    IF Len(names) = 0 \/ st.exc # None THEN st
    ELSE LET workbook_name == names[1]
             workbook_paths == parse_paths(lines, workbook_name)
             workbooks == WorkbooksNamed(workbook_name)
             rq == PagerReqs("get_workbooks", workbook_name, Len(workbooks),
                             Len(st.reqs), fail)
             m == update_matching(workbooks, workbook_paths, all_projects, fail,
                      [reqs |-> st.reqs \o rq, table |-> st.table, num |-> st.num,
                       out |-> st.out, exc |-> None, all_paths |-> Range(workbook_paths)])
             left == SetToSeq(m.all_paths)
         IN  update_paths_loop(Tail(names), lines, all_projects, fail,
                 IF PagerFailed(Len(workbooks), Len(st.reqs), fail)
                 THEN Updating(st.reqs \o rq, st.table, st.num, st.out, "ServerResponseError")
                 ELSE IF m.exc # None
                 THEN Updating(m.reqs, m.table, m.num, m.out, m.exc)
                 ELSE Updating(m.reqs, m.table, m.num,
                               m.out \o [k \in 1..Len(left) |->
                                   Line("no_path", 0, left[k] \o <<Slash>> \o workbook_name)],
                               None))

\* lines 706-708 and update_workbooks_by_paths, lines 716-743
update_workbooks_by_paths(fail) ==
    LET rq == PagerReqs("get_projects", <<>>, Len(srvProjects), 0, fail)
        all_projects == AllProjects(Pager(srvProjects, pageSize, TRUE))
        lines == sanitize_workbook_list(args.path_list)
        st == update_paths_loop(parse_names(lines), lines, all_projects, fail,
                  Updating(rq, <<>>, 0, sanitize_printed(args.path_list), None))
    IN  IF PagerFailed(Len(srvProjects), 0, fail)
        THEN Updating(rq, <<>>, 0, sanitize_printed(args.path_list), "ServerResponseError")
        ELSE IF st.exc # None THEN st
        ELSE [st EXCEPT !.out = @ \o UpdateReport(st)]

\* update_workbook_by_path, lines 682-691: the error of the update is caught
update_workbook_by_path(fail) ==
    LET r == get_workbook_from_path(fail)
        ok == Len(r.reqs) + 1 # fail
    IN  IF r.exc # None THEN Updating(r.reqs, <<>>, 0, <<>>, r.exc)
        ELSE IF Len(r.keys) = 0 THEN Updating(r.reqs, <<>>, 0, <<>>, None)
        ELSE Updating(Append(r.reqs, UpdateReq(r.keys[1], ok)), <<>>, 0,
                      IF ok THEN <<>> ELSE <<Line("error", r.keys[1], <<>>)>>, None)

\* lines 705-713
update_workbook_run(fail) ==
    IF args.path_list.given THEN update_workbooks_by_paths(fail)
    ELSE IF args.name_list.given THEN update_workbooks_by_names(fail)
    ELSE update_workbook_by_path(fail)

update_workbook_body ==
    /\ pc = "update_workbook_body"
    /\ \E fail \in 0..Len(update_workbook_run(0).reqs) :
        LET st == update_workbook_run(fail)
        IN  /\ LeaveWith(st.reqs)
            /\ printed' = printed \o st.out
            /\ table' = st.table
            /\ num' = st.num
            /\ IF st.exc # None THEN Raise(st.exc) ELSE Return("True")
    /\ UNCHANGED <<args, server, schedule, tasks, workbook_id_to_workbook,
                   workbook_id_to_task, todo, caller, answers, processed>>

\* ------------------------------------------------------------------------
\* Project updates: update_project_by_name / _by_path, lines 608-668, 833-848
\* ------------------------------------------------------------------------
\* find_projects_to_update, lines 840-848: the project, then its children
RECURSIVE find_projects_to_update(_, _)
RECURSIVE find_children_to_update(_, _)
\* variant of find_projects_to_update that stops at the children
find_projects_to_update_children(project, all_projects) ==
    <<project>> \o SelectSeq(all_projects, LAMBDA child : child.parent_id = project.id)

find_projects_to_update(project, all_projects) ==
    <<project>> \o find_children_to_update(
                       SelectSeq(all_projects, LAMBDA child : child.parent_id = project.id),
                       all_projects)

find_children_to_update(children_projects, all_projects) ==
    IF Len(children_projects) = 0 THEN <<>>
    ELSE find_projects_to_update(children_projects[1], all_projects)
         \o find_children_to_update(Tail(children_projects), all_projects)

\* find_project_ids_to_update, lines 665-668
find_project_ids_to_update(all_projects, project) ==
    LET projects_to_update == find_projects_to_update(project, all_projects)
    IN  {projects_to_update[k].id : k \in 1..Len(projects_to_update)}

\* update_project, lines 656-659: the workbooks of one page
RECURSIVE update_in_projects(_, _, _, _)
update_in_projects(workbooks, project_ids, fail, st) ==
    IF Len(workbooks) = 0 \/ st.exc # None THEN st
    ELSE LET workbook == workbooks[1]
             ok == Len(st.reqs) + 1 # fail
         IN  update_in_projects(Tail(workbooks), project_ids, fail,
                 IF workbook.project_id \notin project_ids THEN st
                 ELSE Updating(Append(st.reqs, UpdateReq(workbook.id, ok)), st.table, st.num,
                               st.out, IF ok THEN None ELSE "ServerResponseError"))

\* update_project, lines 656-659: the Pager is consumed page by page
RECURSIVE update_pages(_, _, _, _)
update_pages(n, project_ids, fail, st) ==
    IF st.exc # None \/ (n > 1 /\ (n - 1) * pageSize >= Len(srvWorkbooks)) THEN st
    ELSE LET ok == Len(st.reqs) + 1 # fail
             rq == Append(st.reqs, Req("get_workbooks", n, 0, <<>>, ok))
         IN  IF ~ok THEN Updating(rq, st.table, st.num, st.out, "ServerResponseError")
             ELSE update_pages(n + 1, project_ids, fail,
                      update_in_projects(Page(srvWorkbooks, n, pageSize), project_ids, fail,
                                         Updating(rq, st.table, st.num, st.out, None)))

\* update_project, lines 653-662
update_project(project, fail, st) ==
    LET rq == PagerReqs("get_projects", <<>>, Len(srvProjects), Len(st.reqs), fail)
        all_projects == Pager(srvProjects, pageSize, TRUE)
        project_ids == find_project_ids_to_update(all_projects, project)
        u == update_pages(1, project_ids, fail,
                          Updating(st.reqs \o rq, st.table, st.num, st.out, None))
    IN  IF PagerFailed(Len(srvProjects), Len(st.reqs), fail)
        THEN Updating(st.reqs \o rq, st.table, st.num, st.out, "ServerResponseError")
        ELSE IF u.exc # None THEN u
        ELSE [u EXCEPT !.out = Append(@, Line("updated_project", project.id, <<>>))]

\* variant of lines 520-521 that enters the first project only
get_project_paths_first(projects) ==
    LET all_projects == AllProjects(Pager(srvProjects, pageSize, TRUE))
    IN  <<[path |-> find_project_path(projects[1], all_projects, <<>>),
           project |-> projects[1]]>>

\* get_project_paths, lines 515-522: path -> project, as the list of the
\* (path, project) pairs in the order of the assignments
get_project_paths(projects) ==
    LET all_projects == AllProjects(Pager(srvProjects, pageSize, TRUE))
    IN  [k \in 1..Len(projects) |->
            [path |-> find_project_path(projects[k], all_projects, <<>>),
             project |-> projects[k]]]

\* possible_paths[path]: the last project assigned to the path
PathsGet(possible_paths, path) ==
    possible_paths[CHOOSE k \in 1..Len(possible_paths) :
                       /\ possible_paths[k].path = path
                       /\ \A j \in (k + 1)..Len(possible_paths) : possible_paths[j].path # path
                  ].project

PathsHas(possible_paths, path) ==
    \E k \in 1..Len(possible_paths) : possible_paths[k].path = path

\* print_paths, lines 525-527: one line per key of the dict, a path that was
\* assigned twice is one key
print_paths(paths) ==
    LET keys == SelectSeq([k \in 1..Len(paths) |-> [at |-> k, path |-> paths[k].path]],
                          LAMBDA e : \A j \in 1..(e.at - 1) : paths[j].path # e.path)
    IN  [k \in 1..Len(keys) |->
            Line("possible_path", PathsGet(paths, keys[k].path).id, keys[k].path)]

\* the outcome of the body of a project workflow: the bulk update and the
\* value returned
Outcome(st, r) == [st |-> st, r |-> r]

\* update_project_by_name, lines 636-650
update_project_by_name_run(fail) ==
    LET rq == PagerReqs("get_projects", <<>>, Len(srvProjects), 0, fail)
        projects == SelectSeq(Pager(srvProjects, pageSize, TRUE),
                              LAMBDA project : project.name = args.project_name.value)
        rq2 == PagerReqs("get_projects", <<>>, Len(srvProjects), Len(rq), fail)
        possible_paths == get_project_paths(projects)
    IN  IF PagerFailed(Len(srvProjects), 0, fail)
        THEN Outcome(Updating(rq, <<>>, 0, <<>>, "ServerResponseError"), None)
        ELSE IF Len(projects) = 0
        THEN Outcome(Updating(rq, <<>>, 0, <<Line("no_project", 0, args.project_name.value)>>,
                              None), "False")
        ELSE IF Len(projects) > 1
        THEN IF PagerFailed(Len(srvProjects), Len(rq), fail)
             THEN Outcome(Updating(rq \o rq2, <<>>, 0, <<>>, "ServerResponseError"), None)
             ELSE Outcome(Updating(rq \o rq2, <<>>, 0,
                              <<Line("not_unique", 0, <<>>)>> \o print_paths(possible_paths),
                              None), "False")
        ELSE Outcome(update_project(projects[1], fail, Updating(rq, <<>>, 0, <<>>, None)),
                     "True")

\* update_project_by_path, lines 614-624
update_project_by_path_run(fail) ==
    LET segments == split(args.project_path.value)
        project_name == segments[Len(segments)]
        rq == PagerReqs("get_projects", <<>>, Len(srvProjects), 0, fail)
        projects == SelectSeq(Pager(srvProjects, pageSize, TRUE),
                              LAMBDA project : project.name = project_name)
        rq2 == PagerReqs("get_projects", <<>>, Len(srvProjects), Len(rq), fail)
        possible_paths == get_project_paths(projects)
    IN  IF PagerFailed(Len(srvProjects), 0, fail)
        THEN Outcome(Updating(rq, <<>>, 0, <<>>, "ServerResponseError"), None)
        ELSE IF Len(projects) = 0
        THEN Outcome(Updating(rq, <<>>, 0, <<Line("no_project", 0, args.project_path.value)>>,
                              None), "False")
        ELSE IF PagerFailed(Len(srvProjects), Len(rq), fail)
        THEN Outcome(Updating(rq \o rq2, <<>>, 0, <<>>, "ServerResponseError"), None)
        ELSE IF ~PathsHas(possible_paths, args.project_path.value)
        THEN Outcome(Updating(rq \o rq2, <<>>, 0, <<>>, "KeyError"), None)
        ELSE Outcome(update_project(PathsGet(possible_paths, args.project_path.value), fail,
                                    Updating(rq \o rq2, <<>>, 0, <<>>, None)), "True")

\* the statements of the with block of a project workflow
project_run(by_name, fail) ==
    IF by_name THEN update_project_by_name_run(fail) ELSE update_project_by_path_run(fail)

\* the body of the with block of a project workflow
ProjectBody(at, by_name) ==
    /\ pc = at
    /\ \E fail \in 0..Len(project_run(by_name, 0).st.reqs) :
        LET o == project_run(by_name, fail)
        IN  /\ LeaveWith(o.st.reqs)
            /\ printed' = printed \o o.st.out
            /\ IF o.st.exc # None THEN Raise(o.st.exc) ELSE Return(o.r)
    /\ UNCHANGED <<args, server, locals, caller, answers, processed>>

\* lines 628-630
update_project_by_name ==
    /\ pc = "update_project_by_name"
    /\ IF ~args.project_name.given
       THEN /\ printed' = Append(printed, Line("specify_project_name", 0, <<>>))
            /\ Return("False")
       ELSE /\ pc' = "update_project_by_name_sign_in"
            /\ UNCHANGED <<ret, printed>>
    /\ UNCHANGED <<args, signedIn, reqs, server, locals, caller, answers, processed>>

update_project_by_name_sign_in ==
    SignIn("update_project_by_name_sign_in", "update_project_by_name_site")

update_project_by_name_site ==
    SiteEnabled("update_project_by_name_site", "update_project_by_name_body")

update_project_by_name_body ==
    ProjectBody("update_project_by_name_body", TRUE)

\* lines 609-611
update_project_by_path ==
    /\ pc = "update_project_by_path"
    /\ IF ~args.project_path.given
       THEN /\ printed' = Append(printed, Line("specify_project_path", 0, <<>>))
            /\ Return("False")
       ELSE /\ pc' = "update_project_by_path_sign_in"
            /\ UNCHANGED <<ret, printed>>
    /\ UNCHANGED <<args, signedIn, reqs, server, locals, caller, answers, processed>>

update_project_by_path_sign_in ==
    SignIn("update_project_by_path_sign_in", "update_project_by_path_site")

update_project_by_path_site ==
    SiteEnabled("update_project_by_path_site", "update_project_by_path_body")

update_project_by_path_body ==
    ProjectBody("update_project_by_path_body", FALSE)

\* ------------------------------------------------------------------------
\* Site update: update_site, lines 774-803
\* ------------------------------------------------------------------------
\* assert_site_options_valid, lines 796-803
assert_site_options_valid ==
    IF args.materialize_now
    THEN [ok |-> FALSE, out |-> <<Line("materialize_now_site", 0, <<>>)>>]
    ELSE IF args.mode = "enable"
    THEN [ok |-> FALSE, out |-> <<Line("site_mode", 0, <<>>)>>]
    ELSE [ok |-> TRUE, out |-> <<>>]

\* lines 775-776
update_site ==
    /\ pc = "update_site"
    /\ LET valid == assert_site_options_valid
       IN  /\ printed' = printed \o valid.out
           /\ IF valid.ok THEN pc' = "update_site_sign_in" /\ ret' = ret
              ELSE Return("False")
    /\ UNCHANGED <<args, signedIn, reqs, server, locals, caller, answers, processed>>

update_site_sign_in == SignIn("update_site_sign_in", "update_site_body")

\* lines 780-786
update_site_body ==
    /\ pc = "update_site_body"
    /\ \E ok_get \in BOOLEAN, ok_update \in BOOLEAN :
        /\ LeaveWith(<<Req("get_site", 0, 0, <<>>, ok_get)>> \o
                     (IF ok_get THEN <<Req("update_site", 0, 0, <<args.mode>>, ok_update)>>
                      ELSE <<>>))
        /\ IF ok_get /\ ok_update
           THEN /\ siteMode' = args.mode
                /\ printed' = printed \o <<Line("updated_site", 0, <<>>),
                                           Line("newline", 0, <<>>)>>
                /\ Return("True")
           ELSE /\ Raise("ServerResponseError")
                /\ UNCHANGED <<siteMode, printed>>
    /\ UNCHANGED <<args, srvTasks, srvProjects, srvWorkbooks, pageSize, nextTaskId, locals,
                   caller, answers, processed>>

\* ------------------------------------------------------------------------
\* Status: show_materialized_views_status, lines 537-605
\* ------------------------------------------------------------------------
\* line 585
show_materialized_views_status ==
    SignIn("show_materialized_views_status", "get_and_print_materialized_views_enabled_sites")

\* get_and_print_materialized_views_enabled_sites, lines 537-556, in the with
\* block of line 585; the user sees the one site they belong to
get_and_print_materialized_views_enabled_sites ==
    /\ pc = "get_and_print_materialized_views_enabled_sites"
    /\ \E ok \in BOOLEAN :
        /\ LeaveWith(<<Req("get_sites", 1, 0, <<>>, ok)>>)
        /\ IF ~ok
           THEN /\ Raise("ServerResponseError")
                /\ UNCHANGED <<printed, todo>>
           ELSE /\ todo' = IF siteMode # "disable" THEN <<1>> ELSE <<>>
                /\ printed' = Append(printed, IF siteMode # "disable"
                                              THEN Table(<<1>>)
                                              ELSE Line("sites_none", 0, <<>>))
                /\ pc' = "status_sites"
                /\ ret' = ret
    /\ UNCHANGED <<args, server, schedule, tasks, workbook_id_to_workbook,
                   workbook_id_to_task, table, num, caller, answers, processed>>

\* lines 598-601: the sign-in to an enabled site
status_site_sign_in ==
    /\ todo # <<>>
    /\ SignIn("status_sites", "status_site_workbooks")

\* line 602, and the end of the with block of line 601
status_site_workbooks ==
    /\ pc = "status_site_workbooks"
    /\ \E fail \in 0..NumPages(Len(srvWorkbooks), pageSize) :
        /\ LeaveWith(PagerReqs("get_workbooks", <<>>, Len(srvWorkbooks), 0, fail))
        /\ IF fail # 0
           THEN Raise("ServerResponseError") /\ UNCHANGED todo
           ELSE todo' = Tail(todo) /\ pc' = "status_sites" /\ ret' = ret
    /\ UNCHANGED <<args, printed, server, schedule, tasks, workbook_id_to_workbook,
                   workbook_id_to_task, table, num, caller, answers, processed>>

\* lines 603-605
status_schedules ==
    /\ pc = "status_sites"
    /\ todo = <<>>
    /\ printed' = Append(printed, Line("enabled_workbooks", 0, <<>>))
    /\ caller' = "show_materialized_views_status"
    /\ pc' = "show_materialized_views_schedules"
    /\ UNCHANGED <<ret, args, signedIn, reqs, server, schedule, tasks,
                   workbook_id_to_workbook, workbook_id_to_task, table, num, todo, answers,
                   processed>>

\* ------------------------------------------------------------------------
\* Initial states
\* ------------------------------------------------------------------------
\* ways to name workbooks on the command line
Selections ==
    { [name_list |-> NoFile, path_list |-> NoFile, workbook_path |-> NoOpt],
      [name_list |-> File(<< <<"a">> >>), path_list |-> NoFile, workbook_path |-> NoOpt],
      [name_list |-> File(<< <<"b", " ">>, <<" ">>, <<"x">> >>), path_list |-> NoFile,
       workbook_path |-> NoOpt],
      [name_list |-> BadFile, path_list |-> NoFile, workbook_path |-> NoOpt],
      [name_list |-> NoFile,
       path_list |-> File(<< <<"p", "/", "a">>, <<"p", "/", "q", "/", "b">>,
                             <<"p", "/", "x", "/", "a">> >>),
       workbook_path |-> NoOpt],
      [name_list |-> File(<< <<"b">> >>), path_list |-> File(<< <<"p", "/", "q", "/", "a">> >>),
       workbook_path |-> NoOpt],
      [name_list |-> NoFile, path_list |-> NoFile,
       workbook_path |-> Opt(<<"p", "/", "q", "/", "a", " ">>)],
      [name_list |-> NoFile, path_list |-> NoFile,
       workbook_path |-> Opt(<<"q", "/", "b">>)] }

WithSelection(a, sel) ==
    [a EXCEPT !.name_list = sel.name_list, !.path_list = sel.path_list,
              !.workbook_path = sel.workbook_path]

\* targets of the tasks of the server
Targets == {NoTarget, [id |-> 1, type |-> "datasource"]}
           \cup {[id |-> w, type |-> "workbook"] : w \in 1..3}

\* task lists of the server: ids in server order
TaskLists ==
    { [k \in 1..Len(f) |-> [id |-> k, target |-> f[k][1], sched |-> f[k][2]]] :
        f \in SeqsUpTo(Targets \X (1..2), MaxTasks) }

InitServer ==
    /\ srvTasks \in TaskLists
    /\ nextTaskId = Len(srvTasks) + 1
    /\ srvProjects = CliProjects
    /\ srvWorkbooks = CliWorkbooks
    /\ pageSize \in 1..MaxPageSize

InitLocals ==
    /\ pc = "main"
    /\ ret = None
    /\ caller = "main"
    /\ signedIn = FALSE
    /\ reqs = <<>>
    /\ printed = <<>>
    /\ schedule = NoSchedule
    /\ tasks = <<>>
    /\ workbook_id_to_workbook = [none |-> TRUE, keys |-> <<>>]
    /\ workbook_id_to_task = <<>>
    /\ table = <<>>
    /\ num = 0
    /\ todo = <<>>
    /\ answers = <<>>
    /\ processed = <<>>

\* --add-to-schedule <name> with a way to name the workbooks
InitAttach ==
    /\ InitLocals
    /\ InitServer
    /\ siteMode = "enable_all"
    /\ \E sel \in Selections, name \in {"Hourly", "Nightly", "Weekend"} :
          args = WithSelection([DefaultArgs EXCEPT !.add_to_schedule = name], sel)

\* ways to name a project on the command line
ProjectNames == {NoOpt, Opt(<<"p">>), Opt(<<"q">>), Opt(<<"z">>)}
ProjectPaths == {NoOpt, Opt(<<"p", "/", "q">>), Opt(<<"q">>), Opt(<<"x", "/", "q">>),
                 Opt(<<"z">>)}

\* --remove-from-schedule with a way to name the workbooks
InitDetach ==
    /\ InitLocals
    /\ InitServer
    /\ siteMode = "enable_all"
    /\ \E sel \in Selections :
          args = WithSelection([DefaultArgs EXCEPT !.remove_from_schedule = TRUE], sel)

\* the schedule options in every combination
InitCommand ==
    /\ InitLocals
    /\ InitServer
    /\ Len(srvTasks) <= 1
    /\ siteMode = "enable_all"
    /\ \E sel \in Selections, show \in BOOLEAN, remove \in BOOLEAN,
          add \in {None, "Hourly"}, create \in {None, "", "Weekly"},
          daily \in BOOLEAN, st \in BOOLEAN :
          /\ show \/ remove \/ add # None \/ create # None
          /\ sel.name_list \in {NoFile, File(<< <<"a">> >>)}
          /\ sel.workbook_path = NoOpt
          /\ args = WithSelection(
                       [DefaultArgs EXCEPT !.show_schedules = show,
                                           !.remove_from_schedule = remove,
                                           !.add_to_schedule = add,
                                           !.create_schedule = create,
                                           !.daily_interval = daily,
                                           !.status = st], sel)

\* values of an hour or minute option
Hours == {PyInt(0), PyStr(8), PyStr(24), PyBad, PyFrac(8)}
Minutes == {PyInt(0), PyStr(30), PyStr(60), PyStr(7)}
EndHours == {PyInt(0), PyStr(18), PyStr(24)}
EndMinutes == {PyInt(0), PyStr(0), PyStr(7)}

\* --create-schedule <name> with interval and time options
InitCreate ==
    /\ InitLocals
    /\ srvTasks = <<>>
    /\ nextTaskId = 1
    /\ srvProjects = CliProjects
    /\ srvWorkbooks = CliWorkbooks
    /\ pageSize = 1
    /\ siteMode = "enable_all"
    /\ \E hourly \in {None, "0.25"}, daily \in BOOLEAN,
          weekly \in {[given |-> FALSE, days |-> <<>>], [given |-> TRUE, days |-> <<>>],
                      [given |-> TRUE, days |-> <<"Monday">>]},
          monthly \in {PyNone, PyStr(5), PyStr(32), PyBad},
          sh \in Hours, sm \in Minutes, eh \in EndHours, em \in EndMinutes,
          st \in BOOLEAN :
          args = [DefaultArgs EXCEPT !.create_schedule = "Weekly",
                                     !.hourly_interval = hourly, !.daily_interval = daily,
                                     !.weekly_interval = weekly, !.monthly_interval = monthly,
                                     !.start_hour = sh, !.start_minute = sm,
                                     !.end_hour = eh, !.end_minute = em, !.status = st]

\* --mode with --type, and --status
InitUpdate ==
    /\ InitLocals
    /\ InitServer
    /\ Len(srvTasks) <= 1
    /\ siteMode \in {"disable", "enable_selective"}
    /\ \E sel \in Selections, type \in {"site", "workbook", "project-name", "project-path"},
          mode \in {None, "enable", "disable"}, now \in BOOLEAN, st \in BOOLEAN,
          pn \in ProjectNames, pp \in ProjectPaths :
          /\ type # "project-name" => pn = NoOpt
          /\ type # "project-path" => pp = NoOpt
          /\ type # "workbook" => sel.name_list = NoFile /\ sel.path_list = NoFile
                                    /\ sel.workbook_path = NoOpt
          /\ type # "site" => ~now
          /\ args = WithSelection(
                       [DefaultArgs EXCEPT !.type = type, !.mode = mode,
                                           !.materialize_now = now, !.status = st,
                                           !.project_name = pn, !.project_path = pp], sel)

NextAttach ==
    \/ main
    \/ handle_schedule_command
    \/ add_workbooks_to_schedule
    \/ find_schedule
    \/ add_list_tasks
    \/ add_resolve
    \/ add_to_materialized_views_schedule
    \/ add_to_materialized_views_schedule_loop
    \/ add_to_materialized_views_schedule_end

SpecAttach == InitAttach /\ [][NextAttach]_vars

NextDetach ==
    \/ main
    \/ handle_schedule_command
    \/ remove_workbook_from_materialized_views
    \/ remove_list_tasks
    \/ remove_resolve
    \/ remove_materialized_views_tasks

SpecDetach == InitDetach /\ [][NextDetach]_vars

NextStatus ==
    \/ show_materialized_views_status
    \/ get_and_print_materialized_views_enabled_sites
    \/ status_site_sign_in
    \/ status_site_workbooks
    \/ status_schedules
    \/ show_materialized_views_schedules
    \/ show_list_tasks
    \/ show_resolve
    \/ print_materialized_views_tasks

NextCreate ==
    \/ main
    \/ handle_schedule_command
    \/ create_materialized_view_schedule
    \/ create_sign_in
    \/ create_schedule
    \/ NextStatus

SpecCreate == InitCreate /\ [][NextCreate]_vars

NextUpdate ==
    \/ main
    \/ update_workbook
    \/ update_workbook_sign_in
    \/ update_workbook_site
    \/ update_workbook_body
    \/ update_project_by_name
    \/ update_project_by_name_sign_in
    \/ update_project_by_name_site
    \/ update_project_by_name_body
    \/ update_project_by_path
    \/ update_project_by_path_sign_in
    \/ update_project_by_path_site
    \/ update_project_by_path_body
    \/ update_site
    \/ update_site_sign_in
    \/ update_site_body
    \/ NextStatus

SpecUpdate == InitUpdate /\ [][NextUpdate]_vars

Next ==
    \/ NextAttach
    \/ NextDetach
    \/ NextCreate
    \/ NextUpdate

\* ------------------------------------------------------------------------
\* A Pager over the tasks endpoint, item by item
\* ------------------------------------------------------------------------
\* variant of Tasks.get that drops the request options
tasks_get_first_page(page_number) == Page(srvTasks, 1, pageSize)

\* Tasks.get(req_options), tasks_endpoint.py lines 15-26: the request options
\* go to the GET request, the server answers with the page they ask for
tasks_get(page_number) == Page(srvTasks, page_number, pageSize)

\* the Pager fetches a page: the first one, or the next one when the items of
\* the current page are used up
pager_fetch ==
    /\ pc = "pager_fetch"
    /\ \E ok \in BOOLEAN :
        LET page_number == Len(reqs) + 1
            page == tasks_get(page_number)
        IN  /\ reqs' = Append(reqs, Req("get_tasks", page_number, 0, <<>>, ok))
            /\ IF ~ok THEN Raise("ServerResponseError") /\ todo' = todo
               ELSE IF page = <<>> THEN Raise("exhausted") /\ todo' = todo
               ELSE pc' = "pager_yield" /\ ret' = ret /\ todo' = page
    /\ UNCHANGED <<args, signedIn, printed, server, schedule, tasks,
                   workbook_id_to_workbook, workbook_id_to_task, table, num, caller,
                   answers, processed>>

\* the Pager yields the next item, until as many items were yielded as the
\* server has
pager_yield ==
    /\ pc = "pager_yield"
    /\ IF num >= Len(srvTasks)
       THEN Raise("exhausted") /\ UNCHANGED <<tasks, todo, num>>
       ELSE IF todo = <<>>
       THEN pc' = "pager_fetch" /\ UNCHANGED <<ret, tasks, todo, num>>
       ELSE /\ tasks' = Append(tasks, Head(todo))
            /\ todo' = Tail(todo)
            /\ num' = num + 1
            /\ UNCHANGED <<pc, ret>>
    /\ UNCHANGED <<args, signedIn, reqs, printed, server, schedule,
                   workbook_id_to_workbook, workbook_id_to_task, table, caller,
                   answers, processed>>

\* list(TSC.Pager(server.tasks)) over a task list of the server
InitPager ==
    /\ InitServer
    /\ siteMode = "enable_all"
    /\ args = DefaultArgs
    /\ pc = "pager_fetch"
    /\ ret = None
    /\ caller = "main"
    /\ signedIn = TRUE
    /\ reqs = <<>>
    /\ printed = <<>>
    /\ schedule = NoSchedule
    /\ tasks = <<>>
    /\ workbook_id_to_workbook = [none |-> TRUE, keys |-> <<>>]
    /\ workbook_id_to_task = <<>>
    /\ table = <<>>
    /\ num = 0
    /\ todo = <<>>
    /\ answers = <<>>
    /\ processed = <<>>

NextPager ==
    \/ pager_fetch
    \/ pager_yield

SpecPager == InitPager /\ [][NextPager]_vars

\* ------------------------------------------------------------------------
\* Calls of the Tasks endpoint (tasks_endpoint.py)
\* ------------------------------------------------------------------------
\* a call of a method of server.tasks: the task type (None: left out), the
\* task id (0: the empty string) and the page the request options ask for
Call(method, task_type, task_id, page_number) ==
    [method |-> method, task_type |-> task_type, task_id |-> task_id,
     page_number |-> page_number]

\* the URL of a request below the base URL of the endpoint, line 12
Url(segments) == <<"tasks">> \o segments

\* the tasks of a type that the server holds
Held(task_type) == IF task_type = "materializeViews" THEN srvTasks ELSE <<>>

\* variant of line 16 that asks for the extract refreshes whatever is given
get_task_type_default(task_type) == "extractRefreshes"

\* line 16: task_type='extractRefreshes' unless given
get_task_type(task_type) == IF task_type = None THEN "extractRefreshes" ELSE task_type

\* Tasks.get, lines 15-26: tasks holds the tasks returned, num the total of
\* the pagination item
tasks_get_call ==
    /\ pc = "tasks_call"
    /\ todo[1].method = "get"
    /\ \E ok \in BOOLEAN :
        LET task_type == get_task_type(todo[1].task_type)
            url == Url(<<task_type>>)
        IN  /\ reqs' = Append(reqs, Req("GET", todo[1].page_number, 0, url, ok))
            /\ IF ok
               THEN /\ tasks' = Page(Held(task_type), todo[1].page_number, pageSize)
                    /\ num' = Len(Held(task_type))
                    /\ Return("tasks")
               ELSE /\ Raise("ServerResponseError")
                    /\ UNCHANGED <<tasks, num>>
    /\ UNCHANGED <<args, signedIn, printed, server, schedule, workbook_id_to_workbook,
                   workbook_id_to_task, table, todo, caller, answers, processed>>

\* a deletion through server.tasks: delete, as test_task.py (lines 87, 90,
\* 112) and materialize_workbooks.py (lines 231, 308) call it, or
\* delete_task_type_and_id, lines 49-58
tasks_delete_call ==
    /\ pc = "tasks_call"
    /\ todo[1].method # "get"
    /\ \E ok \in BOOLEAN :
        LET task_type == todo[1].task_type
            task_id == todo[1].task_id
            url == Url(<<task_type, task_id>>)
        IN  IF todo[1].method \notin TasksMethods
            THEN Raise("AttributeError") /\ UNCHANGED <<reqs, srvTasks>>
            ELSE IF task_id = 0 \/ task_type = ""
            THEN Raise("ValueError") /\ UNCHANGED <<reqs, srvTasks>>
            ELSE /\ reqs' = Append(reqs, Req("DELETE", 0, 0, url, ok))
                 /\ srvTasks' = IF ok /\ task_type = "materializeViews"
                                 THEN WithoutTask(srvTasks, task_id) ELSE srvTasks
                 /\ IF ok THEN Return(None) ELSE Raise("ServerResponseError")
    /\ UNCHANGED <<args, signedIn, printed, srvProjects, srvWorkbooks, siteMode, pageSize,
                   nextTaskId, locals, caller, answers, processed>>

\* a signed-in server and one call of the endpoint
InitTasks ==
    /\ InitServer
    /\ siteMode = "enable_all"
    /\ args = DefaultArgs
    /\ pc = "tasks_call"
    /\ ret = None
    /\ caller = "test"
    /\ signedIn = TRUE
    /\ reqs = <<>>
    /\ printed = <<>>
    /\ schedule = NoSchedule
    /\ tasks = <<>>
    /\ workbook_id_to_workbook = [none |-> TRUE, keys |-> <<>>]
    /\ workbook_id_to_task = <<>>
    /\ table = <<>>
    /\ num = 0
    /\ \E method \in {"get", "delete", "delete_task_type_and_id"},
          task_type \in {None, "", "extractRefreshes", "materializeViews"},
          task_id \in 0..MaxTasks, page_number \in 1..2 :
          /\ method = "get" => task_id = 0 /\ task_type # ""
          /\ method # "get" => page_number = 1
          /\ method = "delete_task_type_and_id" => task_type # None
          /\ todo = <<Call(method, task_type, task_id, page_number)>>
    /\ answers = <<>>
    /\ processed = <<>>

NextTasks ==
    \/ tasks_get_call
    \/ tasks_delete_call

SpecTasks == InitTasks /\ [][NextTasks]_vars

\* ------------------------------------------------------------------------
\* find_project_path and find_project_ids_to_update over project maps
\* ------------------------------------------------------------------------
\* the depth of the call stack at which the interpreter raises RecursionError
\* (scaled down: deeper than any chain of parents without a cycle)
RecursionLimit == MaxProjects + 2

\* project lists, ids in list order; a parent is no project (0) or a project
\* of the list, so the parent links may form cycles
ProjectLists ==
    { [k \in 1..Len(f) |-> [id |-> k, name |-> f[k][1], parent_id |-> f[k][2]]] :
        f \in {g \in SeqsUpTo({Str("p"), Str("q")} \X (0..MaxProjects), MaxProjects) :
                  Len(g) >= 1 /\ \A k \in 1..Len(g) : g[k][2] <= Len(g)} }

\* one call of find_project_path, lines 504-512: todo holds the project of
\* the call, table the path handed to it, num the depth of the call stack,
\* processed the projects of the calls made so far
find_project_path_call ==
    /\ pc = "find_project_path"
    /\ LET project == todo[1]
           all_projects == AllProjects(srvProjects)
       IN  IF num >= RecursionLimit
           THEN /\ Raise("RecursionError")
                /\ UNCHANGED <<table, num, todo, processed>>
           ELSE /\ table' = path_with(project, table)
                /\ num' = num + 1
                /\ processed' = Append(processed, project.id)
                /\ IF is_root(project)
                   THEN Return("path") /\ todo' = todo
                   ELSE /\ todo' = <<all_projects[project.parent_id]>>
                        /\ UNCHANGED <<pc, ret>>
    /\ UNCHANGED <<args, signedIn, reqs, printed, server, schedule, tasks,
                   workbook_id_to_workbook, workbook_id_to_task, caller, answers>>

\* the projects a chain of child links from the project reaches in n steps
RECURSIVE below(_, _)
below(ids, n) ==
    IF n = 0 THEN ids
    ELSE below({srvProjects[k].id : k \in {j \in 1..Len(srvProjects) :
                                              srvProjects[j].parent_id \in ids}}, n - 1)

\* find_project_ids_to_update, lines 665-668: find_projects_to_update calls
\* itself for every child (line 848), without end when a chain of child
\* links from the project comes back to a project of the chain; tasks holds
\* the set returned
find_project_ids_to_update_call ==
    /\ pc = "find_project_ids_to_update"
    /\ IF below({todo[1].id}, Len(srvProjects)) # {}
       THEN Raise("RecursionError") /\ tasks' = tasks
       ELSE Return("project_ids") /\ tasks' = find_project_ids_to_update(srvProjects, todo[1])
    /\ UNCHANGED <<args, signedIn, reqs, printed, server, schedule,
                   workbook_id_to_workbook, workbook_id_to_task, table, num, todo,
                   caller, answers, processed>>

\* a project map and one project of it, handed to one of the two functions
InitProjects ==
    /\ srvTasks = <<>>
    /\ nextTaskId = 1
    /\ srvProjects \in ProjectLists
    /\ srvWorkbooks = <<>>
    /\ pageSize = 1
    /\ siteMode = "enable_all"
    /\ args = DefaultArgs
    /\ pc \in {"find_project_path", "find_project_ids_to_update"}
    /\ ret = None
    /\ caller = "update_project"
    /\ signedIn = TRUE
    /\ reqs = <<>>
    /\ printed = <<>>
    /\ schedule = NoSchedule
    /\ tasks = <<>>
    /\ workbook_id_to_workbook = [none |-> TRUE, keys |-> <<>>]
    /\ workbook_id_to_task = <<>>
    /\ table = <<>>
    /\ num = 0
    /\ \E k \in 1..Len(srvProjects) : todo = <<srvProjects[k]>>
    /\ answers = <<>>
    /\ processed = <<>>

NextProjects ==
    \/ find_project_path_call
    \/ find_project_ids_to_update_call

SpecProjects == InitProjects /\ [][NextProjects]_vars

\* ------------------------------------------------------------------------
\* Workbook resolution over the workbook lists a server can hold
\* ------------------------------------------------------------------------
\* workbook lists of the server, ids in server order: the name is not unique,
\* neither on the server nor in a project
WorkbookLists ==
    { [k \in 1..Len(f) |-> [id |-> k, name |-> f[k][1], project_id |-> f[k][2]]] :
        f \in SeqsUpTo({Str("a"), Str("b")} \X (1..2), MaxWorkbooks) }

\* lines of a file of workbook paths
PathLines == { <<"p", "/", "a">>, <<"p", "/", "q", "/", "a">>, <<"p", "/", "q", "/", "b", " ">>,
               <<"q", "/", "a">>, <<"a">>, <<" ">> }

\* lines of a file of workbook names
NameLines == { <<"a">>, <<"b", " ">>, <<"x">>, <<>> }

\* values of --workbook-path
WorkbookPaths == { <<"p", "/", "a">>, <<"p", "/", "q", "/", "b", " ">>, <<"q", "/", "a">> }

\* --show-schedules with a path list, a name list or a workbook path
InitResolve ==
    /\ InitLocals
    /\ srvTasks = <<>>
    /\ nextTaskId = 1
    /\ srvProjects = CliProjects
    /\ srvWorkbooks \in WorkbookLists
    /\ pageSize \in 1..MaxPageSize
    /\ siteMode = "enable_all"
    /\ \E sel \in
            {[name_list |-> NoFile, path_list |-> File(l), workbook_path |-> NoOpt] :
                l \in SeqsUpTo(PathLines, MaxLines)}
            \cup {[name_list |-> File(l), path_list |-> NoFile, workbook_path |-> NoOpt] :
                l \in SeqsUpTo(NameLines, MaxLines)}
            \cup {[name_list |-> NoFile, path_list |-> NoFile, workbook_path |-> Opt(v)] :
                v \in WorkbookPaths}
            \cup {[name_list |-> BadFile, path_list |-> NoFile, workbook_path |-> NoOpt],
                  [name_list |-> NoFile, path_list |-> BadFile, workbook_path |-> NoOpt]} :
          args = WithSelection([DefaultArgs EXCEPT !.show_schedules = TRUE], sel)

NextResolve ==
    \/ main
    \/ handle_schedule_command
    \/ show_materialized_views_schedules
    \/ show_list_tasks
    \/ show_resolve
    \/ print_materialized_views_tasks

SpecResolve == InitResolve /\ [][NextResolve]_vars

NextCommand ==
    \/ NextAttach
    \/ NextDetach
    \/ NextCreate

\* the schedule command with its options in every combination
SpecCommand == InitCommand /\ [][NextCommand]_vars

Init == InitAttach \/ InitDetach \/ InitCommand \/ InitCreate \/ InitUpdate

Spec == Init /\ [][Next]_vars

\* ------------------------------------------------------------------------
\* Properties
\* ------------------------------------------------------------------------
\* positions in the log of the add-to-schedule requests for workbook w
Adds(w) == {k \in 1..Len(reqs) : reqs[k].op = "add_to_schedule" /\ reqs[k].id2 = w}

\* positions in the log of the delete requests for the task id
Deletes(id) == {k \in 1..Len(reqs) : reqs[k].op = "delete_task" /\ reqs[k].id = id}

\* the tasks the server holds for workbook w
TasksOf(w) == SelectSeq(srvTasks, LAMBDA t : t.target = [id |-> w, type |-> "workbook"])

\* no task of the listing targets workbook w
NoTaskFor(w) ==
    \A k \in 1..Len(tasks) : ~(tasks[k].target.type = "workbook" /\ tasks[k].target.id = w)

\* C1: Attach, the workbook has a task on another schedule and the user
\* accepts: a delete request for the old task is sent, every add-to-schedule
\* request for the workbook comes after it, a successful delete is followed
\* by the add-to-schedule request, and when both succeed every task the
\* server holds for the workbook is on the target schedule.
C1_AcceptDeletesThenAdds ==
    \A a \in 1..Len(answers) :
        answers[a].yes =>
            LET w == answers[a].w
                old == workbook_id_to_task[w]
            IN  /\ Deletes(old.id) # {}
                /\ \A j \in Adds(w) : \E i \in Deletes(old.id) : i < j
                /\ \A i \in Deletes(old.id) : reqs[i].ok => \E j \in Adds(w) : i < j
                /\ (\E i \in Deletes(old.id), j \in Adds(w) : reqs[i].ok /\ reqs[j].ok)
                     => /\ Len(TasksOf(w)) > 0
                        /\ \A k \in 1..Len(TasksOf(w)) : TasksOf(w)[k].sched = schedule.id

\* C2: Attach, the workbook has a task on another schedule and the user
\* declines: no delete request for its task and no add-to-schedule request
\* for the workbook is sent, the server still holds the task on its schedule,
\* and the workbook is entered in the result table with that schedule.
C2_DeclineChangesNothing ==
    \A a \in 1..Len(answers) :
        ~answers[a].yes =>
            LET w == answers[a].w
                old == workbook_id_to_task[w]
            IN  /\ Adds(w) = {}
                /\ Deletes(old.id) = {}
                /\ \E k \in 1..Len(srvTasks) : srvTasks[k] = old
                /\ old.sched # schedule.id
                /\ \E k \in 1..Len(table) : table[k] = Row(w, old.sched)

C2_Witness ==
    /\ pc = "done"
    /\ ret = "True"
    /\ \E a \in 1..Len(answers) : ~answers[a].yes /\ answers[a].w \in Range(processed)

\* C3: Attach, the task of the workbook is on the target schedule: the user
\* is not asked, no delete request for the task and no add-to-schedule
\* request for the workbook is sent, and the server still holds the task.
C3_OnTargetIsNoOp ==
    \A w \in Range(processed) :
        (w \in DOMAIN workbook_id_to_task /\ workbook_id_to_task[w].sched = schedule.id)
        => /\ \A a \in 1..Len(answers) : answers[a].w # w
           /\ Adds(w) = {}
           /\ Deletes(workbook_id_to_task[w].id) = {}
           /\ \E k \in 1..Len(srvTasks) : srvTasks[k] = workbook_id_to_task[w]

C3_Witness ==
    /\ pc = "done"
    /\ ret = "True"
    /\ \E w \in Range(processed) :
          /\ w \in DOMAIN workbook_id_to_task
          /\ workbook_id_to_task[w].sched = schedule.id
          /\ workbook_id_to_task[w].id # schedule.id

\* C4: Attach, no workbook-type task of the listing targets the workbook:
\* once the loop is through with the workbook, exactly one add-to-schedule
\* request was sent for it, for the target schedule, and no delete request
\* for a task of the workbook; if the request succeeded the server holds a
\* task for the workbook on the target schedule.
C4_UnscheduledIsAdded ==
    \A w \in Range(processed) :
        NoTaskFor(w)
        => /\ Cardinality(Adds(w)) = 1
           /\ \A k \in Adds(w) :
                 /\ reqs[k].id = schedule.id
                 /\ reqs[k].ok => \E j \in 1..Len(TasksOf(w)) : TasksOf(w)[j].sched = schedule.id
           /\ \A k \in 1..Len(reqs) :
                 reqs[k].op = "delete_task"
                 => \A t \in Range(tasks) \cup Range(srvTasks) :
                       t.id = reqs[k].id => t.target.id # w

C4_Witness ==
    /\ pc = "done"
    /\ \E w \in Range(processed) :
          /\ NoTaskFor(w)
          /\ \E k \in 1..Len(tasks) : tasks[k].target = [id |-> w, type |-> "datasource"]
          /\ \E k \in Adds(w) : reqs[k].ok

\* the tasks of the listing whose target is one of the resolved workbooks
Matching ==
    {tasks[k] : k \in {j \in 1..Len(tasks) :
                          tasks[j].target.id \in Range(workbook_id_to_workbook.keys)}}

\* Detach has resolved a workbook set that is not empty and has ended
DetachEnded ==
    /\ pc = "done"
    /\ args.remove_from_schedule
    /\ ~workbook_id_to_workbook.none
    /\ Len(workbook_id_to_workbook.keys) > 0

\* C5: Detach with a resolved workbook set that is not empty: when the
\* workflow has ended, a delete request was sent for exactly the tasks of the
\* listing whose target id is in the set, and the removals were printed.
C5_DetachDeletesMatching ==
    DetachEnded =>
        /\ \A k \in 1..Len(tasks) : (tasks[k] \in Matching) <=> (Deletes(tasks[k].id) # {})
        /\ (Matching # {}) =>
              \E k \in 1..Len(printed) : printed[k].k \in {"table", "none_removed"}

\* C6: Detach, partial failure: when the workflow has ended, a delete request
\* was sent for every task of the listing whose target id is in the resolved
\* set, also after a delete request that failed, and the number of removals
\* printed is the number of delete requests that succeeded.
C6_DetachContinuesAfterFailure ==
    DetachEnded =>
        LET succeeded == {k \in 1..Len(reqs) : reqs[k].op = "delete_task" /\ reqs[k].ok}
        IN  /\ \A t \in Matching : Deletes(t.id) # {}
            /\ (Matching # {}) =>
                  \E k \in 1..Len(printed) :
                      \/ printed[k].k = "table" /\ Len(printed[k].rows) = Cardinality(succeeded)
                      \/ printed[k].k = "none_removed" /\ succeeded = {}

\* the command is a bulk update of workbooks: by name list, by path list or
\* by project
BulkUpdate ==
    /\ ~args.show_schedules /\ args.create_schedule = None
    /\ ~args.remove_from_schedule /\ args.add_to_schedule = None
    /\ \/ /\ args.type = "workbook" /\ args.mode # None
          /\ args.path_list.given \/ args.name_list.given
       \/ args.type = "project-name" /\ args.project_name.given
       \/ args.type = "project-path" /\ args.project_path.given

\* the update requests of the bulk update when the server answers no request
\* with an error
BatchReqs ==
    LET rq == IF args.type = "workbook" THEN update_workbook_run(0).reqs
              ELSE IF args.type = "project-name" THEN update_project_by_name_run(0).st.reqs
              ELSE update_project_by_path_run(0).st.reqs
    IN  SelectSeq(rq, LAMBDA r : r.op = "update_workbook")

\* the workbooks selected by the batch
Selected == {BatchReqs[k].id : k \in 1..Len(BatchReqs)}

\* positions in the log of the update requests
Updates == {k \in 1..Len(reqs) : reqs[k].op = "update_workbook"}

\* C7: bulk workbook update: when the update request of one workbook failed
\* and the workflow has ended, the failure was printed and an update request
\* was sent for every workbook selected by the batch.
C7_BulkUpdateContinues ==
    (BulkUpdate /\ pc = "done" /\ \E k \in Updates : ~reqs[k].ok)
    => /\ \E k \in 1..Len(printed) : printed[k].k = "error"
       /\ \A w \in Selected : \E k \in Updates : reqs[k].id = w

\* a session is open after the first k requests of the log
RECURSIVE SessionOpen(_)
SessionOpen(k) ==
    IF k = 0 THEN FALSE
    ELSE IF reqs[k].op = "sign_in" THEN reqs[k].ok
    ELSE IF reqs[k].op = "sign_out" THEN FALSE
    ELSE SessionOpen(k - 1)

\* C8: every request other than a sign-in is sent in an open session, a
\* sign-in is sent only when no session is open, and when the program has
\* ended (by a return or by an exception) no session is open: every
\* successful sign-in was followed by a sign-out.
C8_SessionScope ==
    /\ \A k \in 1..Len(reqs) :
          IF reqs[k].op = "sign_in" THEN ~SessionOpen(k - 1) ELSE SessionOpen(k - 1)
    /\ signedIn = SessionOpen(Len(reqs))
    /\ pc = "done" => ~SessionOpen(Len(reqs))

C8_Witness ==
    /\ pc = "done"
    /\ ret = "ServerResponseError"
    /\ \E k \in 1..Len(reqs) : reqs[k].op = "get_tasks" /\ ~reqs[k].ok
    /\ reqs[Len(reqs)].op = "sign_out"

\* the schedule options are in conflict or name no workbooks
ConflictingOptions ==
    \/ NumActions > 1
    \/ /\ args.add_to_schedule # None \/ args.remove_from_schedule
       /\ NoWorkbooksGiven

\* C9: when the schedule options are in conflict (more than one of create,
\* add, remove, show) or add/remove comes without a name list, path list or
\* workbook path, no sign-in and no other request is sent.
C9_ConflictSendsNothing == ConflictingOptions => reqs = <<>>

\* the number of interval kinds given on the command line
NumKinds ==
    (IF args.hourly_interval # None THEN 1 ELSE 0)
    + (IF args.daily_interval THEN 1 ELSE 0)
    + (IF args.weekly_interval.given THEN 1 ELSE 0)
    + (IF args.monthly_interval.t # None THEN 1 ELSE 0)

\* C10: CreateSchedule: the validation passes only with exactly one interval
\* kind; with none or with two or more kinds it does not pass, no sign-in and
\* no schedule-create request is sent, and the workflow does not return True.
C10_OneIntervalKind ==
    /\ verify_time_arguments.r = "True" => NumKinds = 1
    /\ NumKinds # 1 => /\ verify_time_arguments.r # "True"
                       /\ reqs = <<>>
                       /\ pc = "done" => ret # "True"

C10_Witness ==
    /\ pc = "done"
    /\ ret = "False"
    /\ NumKinds >= 2
    /\ \E k \in 1..Len(printed) : printed[k].k = "select_one_type"

\* an hour in 0..23 and a minute in {0, 15, 30, 45}
ValidTime(hour, minute) ==
    /\ hour.t # None /\ hour.whole /\ hour.n \in 0..23
    /\ minute.t # None /\ minute.whole /\ minute.n \in {0, 15, 30, 45}

\* C11: CreateSchedule: the validation is passed (the workflow goes on to the
\* sign-in) only with a start hour in 0..23 and a start minute in
\* {0, 15, 30, 45}, and for an hourly schedule only with an end time in the
\* same ranges; with any other hour or minute no request is sent.
C11_TimeValidation ==
    LET start == ValidTime(args.start_hour, args.start_minute)
        end == args.hourly_interval # None => ValidTime(args.end_hour, args.end_minute)
    IN  (pc = "create_sign_in" \/ reqs # <<>>) => (start /\ end)

\* CreateSchedule(Hourly, start=08:00, end=18:00, step=0.25), the end hour and
\* minute typed on the command line
HourlyQuarter ==
    /\ args.create_schedule \notin {None, ""}
    /\ ~args.show_schedules /\ ~args.remove_from_schedule /\ args.add_to_schedule = None
    /\ args.hourly_interval = "0.25"
    /\ ~args.daily_interval /\ ~args.weekly_interval.given /\ args.monthly_interval.t = None
    /\ args.start_hour = PyStr(8) /\ args.start_minute = PyInt(0)
    /\ args.end_hour = PyStr(18) /\ args.end_minute = PyStr(0)

\* positions in the log of the schedule-create requests
Creates == {k \in 1..Len(reqs) : reqs[k].op = "create_schedule"}

\* C12: CreateSchedule(Hourly, start=08:00, end=18:00, step=0.25) with the end
\* time typed on the command line: the validation passes (a sign-in request
\* is sent), and once the program has ended after a successful sign-in
\* exactly one schedule-create request was sent, with the hourly interval
\* 08:00-18:00 and the float step 0.25.
C12_HourlyQuarterCreated ==
    (HourlyQuarter /\ pc = "done") =>
        /\ \E k \in 1..Len(reqs) : reqs[k].op = "sign_in"
        /\ (\E k \in 1..Len(reqs) : reqs[k].op = "sign_in" /\ reqs[k].ok)
             => /\ Cardinality(Creates) = 1
                /\ \A k \in Creates : reqs[k].name = <<"hourly", 8, 0, 18, 0, "float", "0.25">>

\* CreateSchedule(Weekly) with no weekday
WeeklyNoDays ==
    /\ args.create_schedule \notin {None, ""}
    /\ args.weekly_interval.given
    /\ args.weekly_interval.days = <<>>

\* C13: CreateSchedule(Weekly) with an empty list of weekdays: the command is
\* rejected, no sign-in and no schedule-create request is sent, and the
\* workflow does not return True.
C13_WeeklyNeedsDays ==
    WeeklyNoDays =>
        /\ reqs = <<>>
        /\ pc # "create_sign_in" /\ pc # "create_schedule"
        /\ pc = "done" => ret # "True"

C13_Witness ==
    /\ WeeklyNoDays
    /\ NumKinds = 1
    /\ ValidTime(args.start_hour, args.start_minute)
    /\ pc = "done"
    /\ ret = "SystemExit"
    /\ \E k \in 1..Len(printed) : printed[k].k = "usage"

\* the task listing of a show, attach or detach workflow has just been built
TasksListed == pc \in {"show_resolve", "add_resolve", "remove_resolve"}

\* C14: the task listing built by the show, attach and detach workflows holds
\* every task of the server exactly once, in server order, whatever the page
\* size and the number of pages.
C14_TaskListingComplete == TasksListed => tasks = srvTasks

\* C15: Pager completeness: a Pager that has run to its end over a listing of
\* T items with page size S has yielded exactly the T items of the listing, in
\* order, and has issued ceil(T/S) fetches, and exactly one fetch when T = 0.
C15_PagerComplete ==
    (pc = "done" /\ ret = "exhausted") =>
        LET T == Len(srvTasks)
        IN  /\ num = T
            /\ tasks = srvTasks
            /\ Len(reqs) = (IF T = 0 THEN 1 ELSE (T + pageSize - 1) \div pageSize)
            /\ Len(reqs) = NumPages(T, pageSize)
            /\ tasks = Pager(srvTasks, pageSize, TRUE)

C15_Witness ==
    /\ pc = "done"
    /\ ret = "exhausted"
    /\ Len(srvTasks) > pageSize
    /\ Len(reqs) > 1
    /\ Len(tasks) = Len(srvTasks)

\* the full path of a project: the names from the root down to the project
RECURSIVE FullPath(_)
FullPath(id) ==
    LET project == AllProjects(srvProjects)[id]
    IN  IF project.parent_id = 0 THEN project.name
        ELSE FullPath(project.parent_id) \o <<Slash>> \o project.name

\* the full path of the project of a workbook
PathOf(w) == FullPath(w.project_id)

\* the entries of the path list as (project path, workbook name) pairs, each
\* line stripped and cut at its last slash; blank lines are no entries
PathEntries ==
    LET lines == sanitize_workbook_list(args.path_list)
    IN  { <<join(ButLast(split(lines[k]))), split(lines[k])[Len(split(lines[k]))]>> :
            k \in 1..Len(lines) }

\* the workbooks of the server at a requested (project path, workbook name)
At(entry) ==
    {k \in 1..Len(srvWorkbooks) :
        srvWorkbooks[k].name = entry[2] /\ PathOf(srvWorkbooks[k]) = entry[1]}

\* the ids in the mapping that the resolution returned
Mapping == Range(workbook_id_to_workbook.keys)

\* the resolution by path list has returned
ResolvedByPaths ==
    /\ pc = "print_materialized_views_tasks"
    /\ args.path_list.given

\* C16: resolution by path list: the mapping returned holds a workbook, under
\* its id, if and only if its name with the full path of its project is one of
\* the requested entries.
C16_PathListMapping ==
    ResolvedByPaths =>
        /\ ~workbook_id_to_workbook.none
        /\ \A k \in 1..Len(srvWorkbooks) :
              (srvWorkbooks[k].id \in Mapping)
                 <=> (<<PathOf(srvWorkbooks[k]), srvWorkbooks[k].name>> \in PathEntries)
        /\ Mapping \subseteq {srvWorkbooks[k].id : k \in 1..Len(srvWorkbooks)}
        /\ Len(workbook_id_to_workbook.keys) = Cardinality(Mapping)

C16_Witness ==
    /\ ResolvedByPaths
    /\ Cardinality(Mapping) = 1
    /\ Len(srvWorkbooks) = 2
    /\ srvWorkbooks[1].name = srvWorkbooks[2].name
    /\ \E k \in 1..2 : srvWorkbooks[k].id \in Mapping /\ srvWorkbooks[k].project_id = 2

\* the diagnostics about unresolved paths that were printed
Unresolved == {printed[k].name : k \in {j \in 1..Len(printed) : printed[j].k = "no_path"}}

\* C17: resolution by path list: for every requested entry the diagnostic
\* about the unresolved path is printed if and only if no workbook of the
\* mapping is at the entry, and nothing else is reported as unresolved.
C17_UnresolvedPathsReported ==
    ResolvedByPaths =>
        /\ \A e \in PathEntries :
              (e[1] \o <<Slash>> \o e[2] \in Unresolved)
                 <=> (\A k \in At(e) : srvWorkbooks[k].id \notin Mapping)
        /\ Unresolved \subseteq {e[1] \o <<Slash>> \o e[2] : e \in PathEntries}

C17_Witness ==
    /\ ResolvedByPaths
    /\ Cardinality(PathEntries) = 2
    /\ Cardinality(Mapping) = 1
    /\ Cardinality(Unresolved) = 1
    /\ \E e \in PathEntries : At(e) # {} /\ (e[1] \o <<Slash>> \o e[2]) \notin Unresolved

ResolvedByNames ==
    /\ pc = "print_materialized_views_tasks"
    /\ ~args.path_list.given
    /\ args.name_list.given

\* the names of the name list, blank lines dropped and trailing blanks cut
Names ==
    LET lines == sanitize_workbook_list(args.name_list)
    IN  {rstrip(lines[k]) : k \in 1..Len(lines)}

\* the names the diagnostic about a name without workbook was printed for
NoWorkbook ==
    {rstrip(printed[k].name) : k \in {j \in 1..Len(printed) : printed[j].k = "no_name"}}

\* C19: resolution by name list: the mapping holds exactly the workbooks of
\* the server whose name is a name of the list, each under its id, and the
\* diagnostic is printed for exactly the names of the list no workbook has.
C19_NameListMapping ==
    ResolvedByNames =>
        /\ ~workbook_id_to_workbook.none
        /\ Mapping = {srvWorkbooks[k].id :
                         k \in {j \in 1..Len(srvWorkbooks) : srvWorkbooks[j].name \in Names}}
        /\ Len(workbook_id_to_workbook.keys) = Cardinality(Mapping)
        /\ NoWorkbook =
               {n \in Names : \A k \in 1..Len(srvWorkbooks) : srvWorkbooks[k].name # n}

C19_Witness ==
    /\ ResolvedByNames
    /\ Cardinality(Mapping) = 2
    /\ Cardinality(Names) = 2
    /\ Cardinality(NoWorkbook) = 1

\* the resolution by a single workbook path has returned
ResolvedByPath ==
    /\ pc = "print_materialized_views_tasks"
    /\ ~args.path_list.given
    /\ ~args.name_list.given
    /\ args.workbook_path.given

\* the requested single path as (project path, workbook name)
PathEntry ==
    LET sp == split(rstrip(args.workbook_path.value))
    IN  <<join(ButLast(sp)), sp[Len(sp)]>>

\* C20: resolution by a single path: the mapping holds at most one workbook;
\* it holds one if and only if some workbook of the name lies in a project of
\* the requested full path, and then it is the first such workbook in the
\* order of the server's answer.
C20_SinglePathFirstMatch ==
    ResolvedByPath =>
        /\ Len(workbook_id_to_workbook.keys) <= 1
        /\ (Len(workbook_id_to_workbook.keys) = 1) <=> (At(PathEntry) # {})
        /\ At(PathEntry) # {} =>
              workbook_id_to_workbook.keys[1] =
                  srvWorkbooks[CHOOSE k \in At(PathEntry) :
                                   \A j \in At(PathEntry) : k <= j].id

C20_Witness ==
    /\ ResolvedByPath
    /\ Cardinality(At(PathEntry)) = 2
    /\ workbook_id_to_workbook.keys = <<srvWorkbooks[1].id>>

\* the n-th ancestor of a project of the map (0: none)
RECURSIVE Up(_, _)
Up(id, n) ==
    IF n = 0 \/ id = 0 THEN id ELSE Up(AllProjects(srvProjects)[id].parent_id, n - 1)

\* the parent links of the project map form a forest
Forest == \A k \in 1..Len(srvProjects) : Up(srvProjects[k].id, Len(srvProjects)) = 0

\* find_project_path has returned the path of the project it was called for
PathReturned == pc = "done" /\ ret = "path"

\* the ids on the chain of parents from the root down to a project of a forest
RECURSIVE Chain(_)
Chain(id) ==
    LET parent == AllProjects(srvProjects)[id].parent_id
    IN  IF parent = 0 THEN <<id>> ELSE Append(Chain(parent), id)

\* the names of a sequence of projects, joined by slashes
RECURSIVE Joined(_)
Joined(ids) ==
    IF Len(ids) = 1 THEN AllProjects(srvProjects)[ids[1]].name
    ELSE AllProjects(srvProjects)[ids[1]].name \o <<Slash>> \o Joined(Tail(ids))

\* C21: for a project of a project forest find_project_path returns the names
\* of the projects on the chain from the root down to the project, in that
\* order, joined by slashes, and just the name for a root project.
C21_PathIsChainOfNames ==
    (Forest /\ PathReturned) =>
        /\ table = Joined(Chain(processed[1]))
        /\ AllProjects(srvProjects)[processed[1]].parent_id = 0 =>
              table = AllProjects(srvProjects)[processed[1]].name

C21_Witness ==
    /\ Forest
    /\ PathReturned
    /\ Len(Chain(processed[1])) = 3
    /\ AllProjects(srvProjects)[Chain(processed[1])[1]].name
          # AllProjects(srvProjects)[processed[1]].name

\* C22: find_project_path on a project map with a cycle of parent links ends
\* with a failure after a number of calls that the number of projects bounds.
C22_CycleFailsFast ==
    caller = "update_project" => num <= Len(srvProjects)

\* the projects that a walk from the roots down through children, by the
\* names of a path, ends at
RECURSIVE Reach(_)
Reach(names) ==
    LET last == names[Len(names)]
        parents == IF Len(names) = 1 THEN {0} ELSE Reach(ButLast(names))
    IN  {srvProjects[k].id : k \in {j \in 1..Len(srvProjects) :
                                       /\ srvProjects[j].name = last
                                       /\ srvProjects[j].parent_id \in parents}}

\* no two projects with the same parent, and no two roots, have the same name
SiblingsDistinct ==
    \A j, k \in 1..Len(srvProjects) :
        (srvProjects[j].parent_id = srvProjects[k].parent_id
           /\ srvProjects[j].name = srvProjects[k].name) => j = k

IdsReturned == pc = "done" /\ ret = "project_ids"

\* C24: for a project of a project forest find_project_ids_to_update returns
\* exactly the ids of the project and of every project whose chain of parents
\* passes through it: the project is in the result, and the parent of every
\* other project of the result is in the result.
C24_DescendantsExact ==
    (Forest /\ IdsReturned) =>
        /\ tasks = {srvProjects[k].id : k \in {j \in 1..Len(srvProjects) :
                        todo[1].id \in Range(Chain(srvProjects[j].id))}}
        /\ todo[1].id \in tasks
        /\ \A id \in tasks \ {todo[1].id} : AllProjects(srvProjects)[id].parent_id \in tasks

C24_Witness ==
    /\ Forest
    /\ IdsReturned
    /\ Cardinality(tasks) = 3
    /\ \E id \in tasks : Len(Chain(id)) = 3
    /\ todo[1].parent_id = 0

\* the projects of the server that have the name given with --project-name
Homonyms ==
    {srvProjects[k].id : k \in {j \in 1..Len(srvProjects) :
                                   srvProjects[j].name = args.project_name.value}}

\* the update by project name was asked for a name that several projects have
Ambiguous ==
    /\ BulkUpdate
    /\ args.type = "project-name"
    /\ Cardinality(Homonyms) > 1

\* C25: update by project name, when more than one project has the name:
\* no update request for a workbook is sent, and once the name was reported as
\* not unique the path of every project of the name is printed as a candidate.
C25_AmbiguousNameUpdatesNothing ==
    Ambiguous =>
        /\ Updates = {}
        /\ (\E k \in 1..Len(printed) : printed[k].k = "not_unique") =>
              \A id \in Homonyms :
                  \E k \in 1..Len(printed) :
                      printed[k].k = "possible_path" /\ printed[k].name = FullPath(id)

C25_Witness ==
    /\ Ambiguous
    /\ pc = "done"
    /\ ret = "False"
    /\ Cardinality({k \in 1..Len(printed) : printed[k].k = "possible_path"}) = 2

\* the update by project path was asked for a path that no project has
NoSuchPath ==
    /\ BulkUpdate
    /\ args.type = "project-path"
    /\ \A k \in 1..Len(srvProjects) : FullPath(srvProjects[k].id) # args.project_path.value

\* C26: update by project path with a path that no project has: when every
\* request was answered without error the workflow ends without an exception,
\* with a diagnostic printed, and no update request for a workbook is sent.
C26_NoSuchPathIsReported ==
    (NoSuchPath /\ pc = "done" /\ siteMode # "disable" /\ \A k \in 1..Len(reqs) : reqs[k].ok) =>
        /\ ret = "False"
        /\ \E k \in 1..Len(printed) : printed[k].k = "no_project"
        /\ Updates = {}

\* the rows of the tables that were printed
ReportRows ==
    UNION {Range(printed[k].rows) : k \in {j \in 1..Len(printed) : printed[j].k = "table"}}

\* C27: Attach, the user declined the replacement for a workbook: the report
\* printed at the end of Attach has a row for the workbook with the schedule
\* it is on and no row for the workbook with the target schedule, also when
\* no workbook was added in the run.
C27_DeclinedIsReported ==
    (args.add_to_schedule # None /\ pc = "done" /\ ret = "True") =>
        \A a \in 1..Len(answers) :
            ~answers[a].yes =>
                /\ Row(answers[a].w, workbook_id_to_task[answers[a].w].sched) \in ReportRows
                /\ Row(answers[a].w, schedule.id) \notin ReportRows

\* the server holds a task for the workbook
HasTask(w) ==
    \E k \in 1..Len(srvTasks) : srvTasks[k].target = [id |-> w, type |-> "workbook"]

Sent(op) == {k \in 1..Len(reqs) : reqs[k].op = op}

\* a deletion through the endpoint has ended
Deleted == caller = "test" /\ pc = "done" /\ todo[1].method # "get"

\* C28: a task deletion through the tasks endpoint with an empty task id ends
\* with ValueError and sends no DELETE request; with a task id and a task type
\* it sends exactly one DELETE request, to the URL of the type and the id.
C28_DeleteChecksId ==
    Deleted =>
        /\ todo[1].task_id = 0 => (ret = "ValueError" /\ Sent("DELETE") = {})
        /\ (todo[1].task_id # 0 /\ todo[1].task_type \notin {None, ""}) =>
              /\ Cardinality(Sent("DELETE")) = 1
              /\ \A k \in Sent("DELETE") :
                    reqs[k].name = <<"tasks", todo[1].task_type, todo[1].task_id>>

\* a call of Tasks.get has ended
Got == caller = "test" /\ pc = "done" /\ todo[1].method = "get"

\* C29: Tasks.get without a task type queries the extract refreshes, with a
\* task type it queries the tasks of the type; either way it sends exactly
\* one GET request and returns the tasks of that response with its pagination
\* item.
C29_GetQueriesType ==
    Got =>
        LET t == IF todo[1].task_type = None THEN "extractRefreshes" ELSE todo[1].task_type
        IN  /\ Len(reqs) = 1
            /\ reqs[1].op = "GET"
            /\ reqs[1].name = <<"tasks", t>>
            /\ ret = "tasks" =>
                  /\ tasks = Page(Held(t), todo[1].page_number, pageSize)
                  /\ num = Len(Held(t))

C29_Witness ==
    /\ Got
    /\ ret = "tasks"
    /\ todo[1].task_type = "materializeViews"
    /\ Len(tasks) = 1
    /\ num = 2

\* the task listing holds a task without target
Orphaned == \E k \in 1..Len(tasks) : tasks[k].target = NoTarget

\* C31: Attach with a task without target in the listing runs to completion:
\* when the server answers every request without error and no replacement was
\* accepted, the workflow ends with a return value and not with an exception.
C31_OrphanedTasksSkipped ==
    (/\ args.add_to_schedule # None
     /\ Orphaned
     /\ pc = "done"
     /\ \A k \in 1..Len(reqs) : reqs[k].ok
     /\ \A a \in 1..Len(answers) : ~answers[a].yes)
    => ret \in {"True", "False"}

\* positions in the log of the delete and add-to-schedule requests that the
\* server answered with an error
FailedChanges ==
    {k \in 1..Len(reqs) : reqs[k].op \in {"delete_task", "add_to_schedule"} /\ ~reqs[k].ok}

\* C32: Attach, the delete or add-to-schedule request of a workbook failed
\* with an error of the server: when the program has ended the failure was
\* printed, the loop went through every workbook of the resolved mapping
\* exactly once, and no workbook has more than one add-to-schedule request.
C32_AttachFailureIsolated ==
    (args.add_to_schedule # None /\ pc = "done" /\ FailedChanges # {}) =>
        /\ \A k \in FailedChanges :
              \E j \in 1..Len(printed) : printed[j].k = "error" /\ printed[j].id = reqs[k].id2
        /\ \A w \in Range(workbook_id_to_workbook.keys) :
              Cardinality({k \in 1..Len(processed) : processed[k] = w}) = 1
        /\ \A w \in Range(workbook_id_to_workbook.keys) : Cardinality(Adds(w)) <= 1

\* the workbook and project update workflows
GuardedUpdate == BulkUpdate \/ (args.type = "workbook" /\ args.mode # None /\
                               ~args.show_schedules /\ args.create_schedule = None /\
                               ~args.remove_from_schedule /\ args.add_to_schedule = None)

\* C33: in the workbook and project update workflows no update request for a
\* workbook is sent while the materialized-views mode of the site is disable,
\* and every update request comes after an answered query of the site.
C33_SiteGuard ==
    GuardedUpdate =>
        /\ siteMode = "disable" => Updates = {}
        /\ \A k \in Updates :
              \E j \in 1..(k - 1) : reqs[j].op = "get_site" /\ reqs[j].ok

C33_Witness ==
    /\ GuardedUpdate
    /\ siteMode = "disable"
    /\ args.name_list.given
    /\ Selected # {}
    /\ pc = "done"
    /\ ret = "False"
    /\ \E k \in 1..Len(printed) : printed[k].k = "site_disabled"

\* a bulk update of workbooks by name list or path list has returned, and
\* the status workflow has not begun to print
ListUpdated ==
    /\ BulkUpdate
    /\ args.type = "workbook"
    /\ caller = "main"
    /\ pc \in {"done", "show_materialized_views_status"}
    /\ ret = "True"

\* the workbooks whose update request succeeded
UpdatedOk == {reqs[k].id : k \in {j \in Updates : reqs[j].ok}}

\* C34: after a bulk update of workbooks by name list or path list the table
\* of the updated workbooks is printed if and only if an update request
\* succeeded, it then has one row for each updated workbook, and the None line
\* is printed only when no workbook was updated.
C34_BulkUpdateReport ==
    ListUpdated =>
        /\ (\E k \in 1..Len(printed) : printed[k].k = "table") <=> (UpdatedOk # {})
        /\ \A k \in 1..Len(printed) :
              printed[k].k = "table" =>
                  /\ Range(printed[k].rows) = UpdatedOk
                  /\ Len(printed[k].rows) = Cardinality(UpdatedOk)
        /\ (\E k \in 1..Len(printed) : printed[k].k = "workbooks_none") => UpdatedOk = {}
====
